---- MODULE Spec2Model ----
(***************************************************************************)
(* InterruptibleBarrier (libs/core/threading/interruptible_barrier.cpp).   *)
(*                                                                         *)
(* The barrier with its own mutex: every stretch of wait(), interrupt()    *)
(* and reset() that runs between mutex->lock() and the next unlock (or the *)
(* next condition wait, which releases the mutex) is one atomic action.    *)
(* The statements wait() executes without the mutex -- the read of         *)
(* threads_left for the exception text, the read of wait_at_barrier_, the  *)
(* call of Barrier::wait() and the read of timeout_ for the return value   *)
(* -- are actions of their own, so every interleaving with the other       *)
(* threads is explored.                                                    *)
(*                                                                         *)
(* Thread (libs/core/threading/thread.h), BlackBoardOnMessageWaker and     *)
(* BlackBoardInterfaceObserver are declared under src/ only; their bodies  *)
(* are modelled from the specification (sections 3, 4.1, 4.3, 4.4).        *)
(***************************************************************************)
EXTENDS Naturals, Integers, Sequences, FiniteSets, TLC

\* ----- bounds of the model ------------------------------------------------
MaxThreads == 3      \* threads that may call wait()
MaxCount   == 3      \* largest barrier count N drawn at construction
MaxCalls   == 3      \* total number of wait() calls in one behaviour
MaxPlain   == 4      \* largest k*N of the plain (no timeout, no interrupt) runs
MaxReuse   == 4      \* total number of wait() calls in one reuse run
MaxGarbage == 2      \* largest value of an integer member before construction
MaxWakeups == 3      \* wakeup() calls and message notifications in one run
MaxLoops   == 3      \* loop iterations of a continuous thread in one run
MaxListeners == 2    \* notification listeners of the thread
MaxObservers == 2    \* interface observers
MaxRegs    == 3      \* pattern registrations in one run
MaxUnlisted == 1     \* callers of wait() that are no Thread of the framework
MaxInterrupts == 1   \* interrupt() calls in one run
MaxResets  == 1      \* reset() calls in one run
MaxLockThreads == 2  \* threads of the runs with the mutex made explicit
MaxLockCalls == 2    \* wait() calls of those runs
MaxTargets == 2      \* targets enqueued for the arm in one run
MaxStops   == 1      \* stop() calls from outside the goto thread in one run
MaxWay     == 2      \* way points of a trajectory
MaxMsgs    == 2      \* messages sent to the Pathplan interface in one run
MaxPlan    == 2      \* longest path the search returns

Threads == 1..(IF MaxThreads > MaxPlain THEN MaxThreads ELSE MaxPlain)

VARIABLES
  count,                          \* _count
  nthreads,                       \* threads 1..nthreads use the barrier
  threads_left,                   \* data_->threads_left
  passed_threads_,                \* RefPtr<ThreadList>: [ptr, list]
  interrupted_,
  timeout_,
  wait_at_barrier_,
  num_threads_in_wait_function_,
  pc,                             \* where each thread is inside wait()
  crashed,                        \* the process died on a null dereference
  \* ----- history (observations of the calls, not program state) ----------
  calls,                          \* number of wait() calls made
  nreg,                           \* number of calls that registered
  regIdx,                         \* regIdx[t]: t's registration was the i-th
  full,                           \* full[t]: N parties registered in t's round
  retval,                         \* "none" | "true" | "false" | "exc"
  immediate,                      \* t's last call took the immediate return
  excK,                           \* the "K of N" an exception of t reported
  intrAt,                         \* K registered when interrupt() hit t's round
  hit,                            \* interrupt() was called during t's call
  toRound,                        \* t's round timed out short of N arrivals
  intrPending,                    \* interrupt() called and no reset() since
  toReturned,                     \* a wait() returned false and no reset() since
  \* ----- the other components ---------------------------------------------
  ctor,                           \* "none" | "own" | "ext" | "threw": the constructor
  thread,                         \* the members of one Thread
  thobs,                          \* history of that thread (observations)
  observers,                      \* bbio_observed_create_/destroy_ per observer
  bbseen,                         \* registration calls made, the latest event and its callbacks
  used,                           \* how the barrier is used: the callers that are no
                                  \* Thread, interrupt() and reset() calls made, a
                                  \* reset() made with a thread inside wait()
  \* ----- the barrier's mutex made explicit --------------------------------
  mutex,                          \* who holds data_->mutex
  opc,                            \* where the callers of interrupt(), reset() and
                                  \* no_threads_in_wait() are
  acc,                            \* the latest access to the shared round state
  \* ----- KinovaGotoThread (plugins/kinova/goto_thread.cpp) -----------------
  kin,                            \* __arm, target_queue, __target, __final, positions
  kobs,                           \* history: commands sent, targets popped, stops
  \* ----- NavGraphThread (plugins/navgraph/navgraph_thread.cpp) -------------
  nav,                            \* msgq of pp_nav_if_, exec_active_, plan_, final, position
  nobs                            \* history: messages sent and handled

bvars == <<count, nthreads, threads_left, passed_threads_, interrupted_, timeout_,
           wait_at_barrier_, num_threads_in_wait_function_, pc, crashed>>
hvars == <<calls, nreg, regIdx, full, retval, immediate, excK, intrAt, hit, toRound,
           intrPending, toReturned>>
lvars == <<mutex, opc, acc>>
kvars == <<kin, kobs>>
nvars == <<nav, nobs>>
evars == <<lvars, kvars, nvars>>
cvars == <<ctor, thread, thobs, observers, bbseen, evars>>
ovars == <<cvars, used>>
vars  == <<bvars, hvars, ovars>>

Listeners == 1..MaxListeners
Observers == 1..MaxObservers

\* ----- the other components at rest ------------------------------------------

\* Thread(name, op_mode), thread.h lines 133-134 and 167-199
ThreadConstructed(mode) ==
  [at |-> "new", op_mode_ |-> mode, coalesce_wakeups_ |-> TRUE,
   pending_wakeups_ |-> 0, waiting_for_wakeup_ |-> FALSE, started_ |-> FALSE,
   cancelled_ |-> FALSE, flags_bad |-> FALSE, notification_listeners_ |-> <<>>]

\* nothing observed of the thread yet
ThreadUnobserved ==
  [loops |-> 0, issued |-> 0, consumed |-> 0, sinceConsume |-> 0,
   notified |-> [X |-> 0, Y |-> 0], owed |-> FALSE, informed |-> <<>>,
   starter |-> "none", initFailed |-> FALSE]

\* BlackBoardInterfaceObserver(), interface_observer.h lines 41 and 61-62:
\* both maps empty (a map is the sequence of its <<type pattern, id list>> entries)
ObserverConstructed == [create |-> <<>>, destroy |-> <<>>]

NoEvent == [kind |-> "none", type |-> <<>>, id |-> <<>>, nregs |-> 0,
            cbs |-> [o \in Observers |-> 0]]

ThreadAtRest == thread = ThreadConstructed("OPMODE_CONTINUOUS") /\ thobs = ThreadUnobserved
ObserversAtRest == observers = [o \in Observers |-> ObserverConstructed] /\ bbseen = NoEvent

\* data_->mutex, created unlocked by the constructor (own-mutex variant)
MFree == [by |-> "none", t |-> 0]
HeldByThread(t) == [by |-> "wait", t |-> t]
HeldByOp(o) == [by |-> o, t |-> 0]
OpNames == {"interrupt", "reset", "no_threads_in_wait"}
NoAccess == [by |-> MFree, what |-> "none", held |-> TRUE]

LockAtRest ==
  mutex = MFree /\ opc = [o \in OpNames |-> "idle"] /\ acc = NoAccess

\* KinovaGotoThread(name) and init(), lines 45-66: no arm registered, no
\* target, __final = true, __final_mutex created (final_mutex); the queue
\* belongs to the arm.  way: the way points _exec_trajec() has still to send;
\* cf_final: the local final of check_final()
TargetIds == 1..MaxTargets
KinovaConstructed ==
  [arm |-> FALSE, queue |-> <<>>, type |-> [i \in TargetIds |-> "none"],
   trajec_state |-> [i \in TargetIds |-> "none"],
   target |-> 0, final |-> TRUE, final_mutex |-> TRUE, still |-> 0,
   way |-> 0, cf_final |-> TRUE,
   lpc |-> "top", spc |-> "idle", fpc |-> "idle", ub |-> "none"]
KinovaUnobserved ==
  [enqueued |-> 0, sent |-> <<>>, popped |-> <<>>, stops |-> 0,
   before |-> {}, stopped |-> {}]
KinovaAtRest == kin = KinovaConstructed /\ kobs = KinovaUnobserved

\* NavGraphThread after init(), lines 64-98: exec_active_ = false, last_node_
\* empty, no plan, a fresh Pathplan interface; mon is cfg_monitor_file_, and
\* fam tells whether fam_ points to a monitor (lines 87-92).
\* thrown and empty_use are observations: the running loop() was left by an
\* exception; an empty plan_ reached node_reached(), send_next_goal() or back();
\* crashed: the process died
NavConstructed(mon) ==
  [msgq |-> <<>>, exec_active_ |-> FALSE, plan_ |-> <<>>, final |-> FALSE,
   last_node_ |-> "", error_code |-> "ERROR_NONE", msgid |-> 0,
   cfg_monitor_file_ |-> mon, fam |-> mon, needs_write |-> FALSE, lpc |-> "idle",
   thrown |-> FALSE, empty_use |-> FALSE, crashed |-> FALSE]
NavUnobserved == [sent |-> 0, handled |-> {}, twice |-> FALSE]
NavAtRest == nav = NavConstructed(FALSE) /\ nobs = NavUnobserved

ExtrasAtRest == LockAtRest /\ KinovaAtRest /\ NavAtRest

\* stages of wait() at which a thread can be observed
InCond == {"cond", "woken", "expired"}     \* inside reltimed_wait (line 269)
SeqToSet(s) == {s[i] : i \in 1..Len(s)}

\* ----- pure pieces of wait() ----------------------------------------------

\* the loop condition without its test of threads_left
LoopCond_NoCount(tl, intr, to, lto) == ~intr /\ ~to /\ ~lto

\* line 266: while (threads_left && !interrupted_ && !timeout_ && !local_timeout)
LoopCond(tl, intr, to, lto) == tl # 0 /\ ~intr /\ ~to /\ ~lto

\* line 264: bool waker = (data_->threads_left == 0)
IsWaker(tl) == tl = 0

\* line 312: return !timeout_
ReturnValue(to) == ~to

\* the exception text reporting the parties still missing
ExcReached_Left(n, tl) == tl

\* line 283: _count - data_->threads_left
ExcReached(n, tl) == n - tl

\* WaitCondition::wake_all(): every thread blocked in the condition wait is
\* signalled; a thread whose timer has already expired keeps its ETIMEDOUT.
WakeAll(p) == [u \in Threads |-> IF p[u] = "cond" THEN "woken" ELSE p[u]]

\* lines 273-298, executed with the mutex held.  b is the shared state
\* [tl, intr, to, wab, pc]; the result is the shared state at the unlock.
AfterLoop(b, t, waker, lto) ==
  LET to1 == b.to \/ lto IN
  IF b.intr
    THEN [b EXCEPT !.to = to1, !.pc[t] = "throw"]
    ELSE LET wab1 == IF waker THEN TRUE ELSE b.wab
             pc1  == IF waker \/ lto THEN WakeAll(b.pc) ELSE b.pc
         IN  [b EXCEPT !.to = to1, !.wab = wab1, !.pc = [pc1 EXCEPT ![t] = "chk"]]

\* lines 266-271: one evaluation of the loop condition; the thread either
\* blocks in reltimed_wait (releasing the mutex) or goes on to line 273.
WaitLoop(b, t, waker, lto) ==
  IF LoopCond(b.tl, b.intr, b.to, lto)
    THEN [b EXCEPT !.pc[t] = "cond"]
    ELSE AfterLoop(b, t, waker, lto)

Shared == [tl |-> threads_left, intr |-> interrupted_, to |-> timeout_,
           wab |-> wait_at_barrier_, pc |-> pc]

\* first to come, without line 240
FirstToCome_NoCount(b, n) == [b EXCEPT !.intr = FALSE, !.to = FALSE, !.wab = FALSE]

\* lines 237-241: first to come
FirstToCome(b, n) == [b EXCEPT !.tl = n, !.intr = FALSE, !.to = FALSE, !.wab = FALSE]

\* an immediate return that is never taken
ReturnsImmediately_Never(tl, intr, to) == FALSE

\* lines 243-249: does the call return at once?
ReturnsImmediately(tl, intr, to) == tl # 0 /\ (intr \/ to)

\* ----- construction ---------------------------------------------------------

\* lines 84-97; wait_at_barrier_ is not initialised by the constructor
Constructed(n) ==
  /\ count = n
  /\ threads_left = 0
  /\ passed_threads_ = [ptr |-> TRUE, list |-> <<>>]
  /\ interrupted_ = FALSE
  /\ timeout_ = FALSE
  /\ wait_at_barrier_ \in BOOLEAN
  /\ num_threads_in_wait_function_ = 0
  /\ pc = [t \in Threads |-> "idle"]
  /\ crashed = FALSE
  /\ ctor = "own"

\* all callers are threads of the framework; neither interrupt() nor reset()
\* has been called
ProperUse == [foreign |-> 0, busy |-> FALSE, interrupts |-> 0, resets |-> 0]

\* the last k of the threads that use the barrier are no Thread of the
\* framework (their thread-specific Thread pointer is not set)
UseCases == {[ProperUse EXCEPT !.foreign = k] : k \in 0..MaxUnlisted}
IsForeign(t) == t > nthreads - used.foreign

HistInit ==
  /\ calls = 0 /\ nreg = 0
  /\ regIdx = [t \in Threads |-> 0]
  /\ full = [t \in Threads |-> FALSE]
  /\ retval = [t \in Threads |-> "none"]
  /\ immediate = [t \in Threads |-> FALSE]
  /\ excK = [t \in Threads |-> 0]
  /\ intrAt = [t \in Threads |-> 0]
  /\ hit = [t \in Threads |-> FALSE]
  /\ toRound = [t \in Threads |-> FALSE]
  /\ intrPending = FALSE /\ toReturned = FALSE

Init ==
  /\ \E n \in 1..MaxCount : Constructed(n)
  /\ nthreads = MaxThreads
  /\ HistInit /\ used \in UseCases
  /\ ThreadAtRest /\ ObserversAtRest /\ ExtrasAtRest

\* u registered in the round being filled (or just filled) and has not
\* called wait() again since: its registration is one of the count -
\* threads_left registrations of the round
InRound(u) == regIdx[u] # 0 /\ regIdx[u] > nreg - (count - threads_left)

\* lines 253-259: the caller is appended unless current_thread() throws
PushBack_(lst, t, fgn) == IF fgn THEN lst ELSE Append(lst, t)

\* ----- wait(), lines 233-271 (and on to 298 when the loop is not entered) ----
\* fgn: Thread::current_thread() throws for the caller (it is no Thread of the
\* framework); the catch of lines 255-259 prints the trace and goes on, the
\* caller is counted (line 252) but not listed.
Call(t, fgn) ==
  /\ ~crashed
  /\ UNCHANGED ovars
  /\ t \in 1..nthreads
  /\ pc[t] = "idle"
  /\ calls' = calls + 1
  /\ UNCHANGED <<count, nthreads, intrPending, toReturned>>
  /\ IF ReturnsImmediately(threads_left, interrupted_, timeout_)
     THEN \* lines 243-249: counter incremented and decremented, return true
          /\ retval' = [retval EXCEPT ![t] = "true"]
          /\ immediate' = [immediate EXCEPT ![t] = TRUE]
          /\ full' = [full EXCEPT ![t] = FALSE]
          /\ regIdx' = [regIdx EXCEPT ![t] = 0]
          /\ excK' = [excK EXCEPT ![t] = 0]
          /\ intrAt' = [intrAt EXCEPT ![t] = 0]
          /\ hit' = [hit EXCEPT ![t] = FALSE]
          /\ toRound' = [toRound EXCEPT ![t] = FALSE]
          /\ UNCHANGED <<threads_left, passed_threads_, interrupted_, timeout_,
                         wait_at_barrier_, num_threads_in_wait_function_, pc,
                         crashed, nreg>>
     ELSE IF threads_left = 0 /\ ~passed_threads_.ptr
     THEN \* line 241: ->clear() on a null RefPtr, after lines 235-240
          /\ crashed' = TRUE
          /\ num_threads_in_wait_function_' = num_threads_in_wait_function_ + 1
          /\ threads_left' = count
          /\ interrupted_' = FALSE
          /\ timeout_' = FALSE
          /\ wait_at_barrier_' = FALSE
          /\ pc' = [pc EXCEPT ![t] = "crashed"]
          /\ retval' = [retval EXCEPT ![t] = "none"]
          /\ immediate' = [immediate EXCEPT ![t] = FALSE]
          /\ full' = [full EXCEPT ![t] = FALSE]
          /\ regIdx' = [regIdx EXCEPT ![t] = 0]
          /\ excK' = [excK EXCEPT ![t] = 0]
          /\ intrAt' = [intrAt EXCEPT ![t] = 0]
          /\ hit' = [hit EXCEPT ![t] = FALSE]
          /\ toRound' = [toRound EXCEPT ![t] = FALSE]
          /\ UNCHANGED <<passed_threads_, nreg>>
     ELSE IF ~passed_threads_.ptr /\ ~fgn
     THEN \* line 254: ->push_back_locked() on a null RefPtr, after lines 235
          \* and 252; current_thread() is evaluated before the call and a
          \* throw of it forestalls the dereference
          /\ crashed' = TRUE
          /\ num_threads_in_wait_function_' = num_threads_in_wait_function_ + 1
          /\ threads_left' = threads_left - 1
          /\ pc' = [pc EXCEPT ![t] = "crashed"]
          /\ retval' = [retval EXCEPT ![t] = "none"]
          /\ immediate' = [immediate EXCEPT ![t] = FALSE]
          /\ full' = [full EXCEPT ![t] = FALSE]
          /\ regIdx' = [regIdx EXCEPT ![t] = 0]
          /\ excK' = [excK EXCEPT ![t] = 0]
          /\ intrAt' = [intrAt EXCEPT ![t] = 0]
          /\ hit' = [hit EXCEPT ![t] = FALSE]
          /\ toRound' = [toRound EXCEPT ![t] = FALSE]
          /\ UNCHANGED <<passed_threads_, interrupted_, timeout_,
                         wait_at_barrier_, nreg>>
     ELSE LET first == threads_left = 0
              b0    == IF first THEN FirstToCome(Shared, count) ELSE Shared
              lst   == PushBack_(IF first THEN <<>> ELSE passed_threads_.list, t, fgn)
              b1    == [b0 EXCEPT !.tl = @ - 1]
              waker == IsWaker(b1.tl)
              b2    == WaitLoop(b1, t, waker, FALSE)
          IN  /\ threads_left' = b2.tl
              /\ interrupted_' = b2.intr
              /\ timeout_' = b2.to
              /\ wait_at_barrier_' = b2.wab
              /\ pc' = b2.pc
              /\ passed_threads_' = [passed_threads_ EXCEPT !.list = lst]
              /\ num_threads_in_wait_function_' = num_threads_in_wait_function_ + 1
              /\ nreg' = nreg + 1
              /\ regIdx' = [regIdx EXCEPT ![t] = nreg + 1]
              /\ full' = [u \in Threads |->
                            IF b1.tl = 0 /\ (u = t \/ (~first /\ InRound(u))) THEN TRUE
                            ELSE IF u = t THEN FALSE ELSE full[u]]
              /\ retval' = [retval EXCEPT ![t] = "none"]
              /\ immediate' = [immediate EXCEPT ![t] = FALSE]
              /\ excK' = [excK EXCEPT ![t] = 0]
              /\ intrAt' = [intrAt EXCEPT ![t] = 0]
              /\ hit' = [hit EXCEPT ![t] = FALSE]
              /\ toRound' = [toRound EXCEPT ![t] = FALSE]
              /\ UNCHANGED crashed

\* line 269: the relative timeout of a blocked thread expires; the thread has
\* still to re-acquire the mutex before reltimed_wait returns false.
TimerExpire(t) ==
  /\ ~crashed
  /\ UNCHANGED ovars
  /\ pc[t] = "cond"
  /\ pc' = [pc EXCEPT ![t] = "expired"]
  /\ UNCHANGED <<count, nthreads, threads_left, passed_threads_, interrupted_, timeout_,
                 wait_at_barrier_, num_threads_in_wait_function_, crashed>>
  /\ UNCHANGED <<calls, nreg, regIdx, full, retval, immediate, excK, intrAt, hit, toRound,
                 intrPending, toReturned>>

\* lines 269-298: reltimed_wait returns with the mutex held, the loop
\* condition is evaluated again.
CondReturn(t) ==
  /\ ~crashed
  /\ UNCHANGED ovars
  /\ pc[t] \in {"woken", "expired"}
  /\ LET b2 == WaitLoop(Shared, t, FALSE, pc[t] = "expired")
     IN  /\ threads_left' = b2.tl
         /\ interrupted_' = b2.intr
         /\ timeout_' = b2.to
         /\ wait_at_barrier_' = b2.wab
         /\ pc' = b2.pc
  /\ toRound' = [u \in Threads |->
                   IF /\ pc[t] = "expired" /\ threads_left > 0
                      /\ InRound(u)
                   THEN TRUE ELSE toRound[u]]
  /\ UNCHANGED <<count, nthreads, passed_threads_, num_threads_in_wait_function_, crashed>>
  /\ UNCHANGED <<calls, nreg, regIdx, full, retval, immediate, excK, intrAt, hit,
                 intrPending, toReturned>>

\* lines 281-284: the exception is built after the unlock; the in-wait
\* counter is left as it is.
Throw(t) ==
  /\ ~crashed
  /\ UNCHANGED ovars
  /\ pc[t] = "throw"
  /\ pc' = [pc EXCEPT ![t] = "idle"]
  /\ retval' = [retval EXCEPT ![t] = "exc"]
  /\ excK' = [excK EXCEPT ![t] = ExcReached(count, threads_left)]
  /\ UNCHANGED <<count, nthreads, threads_left, passed_threads_, interrupted_, timeout_,
                 wait_at_barrier_, num_threads_in_wait_function_, crashed>>
  /\ UNCHANGED <<calls, nreg, regIdx, full, immediate, intrAt, hit, toRound,
                 intrPending, toReturned>>

\* Barrier::wait() of the base class Barrier (constructed with the same count,
\* line 84), a barrier for n parties: the caller blocks until n threads are
\* inside, then all n leave together.
BarrierWait(p, t, n) ==
  LET inside == {u \in Threads : p[u] = "hard"} \cup {t} IN
  IF Cardinality(inside) >= n
    THEN [u \in Threads |-> IF u \in inside THEN "dec" ELSE p[u]]
    ELSE [p EXCEPT ![t] = "hard"]

\* lines 300-303: wait_at_barrier_ is read without the mutex
CheckBarrier(t) ==
  /\ ~crashed
  /\ UNCHANGED ovars
  /\ pc[t] = "chk"
  /\ pc' = IF wait_at_barrier_ THEN BarrierWait(pc, t, count)
                               ELSE [pc EXCEPT ![t] = "dec"]
  /\ UNCHANGED <<count, nthreads, threads_left, passed_threads_, interrupted_, timeout_,
                 wait_at_barrier_, num_threads_in_wait_function_, crashed>>
  /\ UNCHANGED hvars

\* lines 305-310
Dec(t) ==
  /\ ~crashed
  /\ UNCHANGED ovars
  /\ pc[t] = "dec"
  /\ pc' = [pc EXCEPT ![t] = "ret"]
  /\ num_threads_in_wait_function_' = num_threads_in_wait_function_ - 1
  /\ UNCHANGED <<count, nthreads, threads_left, passed_threads_, interrupted_, timeout_,
                 wait_at_barrier_, crashed>>
  /\ UNCHANGED hvars

\* line 312: timeout_ is read without the mutex
Ret(t) ==
  /\ ~crashed
  /\ UNCHANGED ovars
  /\ pc[t] = "ret"
  /\ pc' = [pc EXCEPT ![t] = "idle"]
  /\ retval' = [retval EXCEPT ![t] = IF ReturnValue(timeout_) THEN "true" ELSE "false"]
  /\ toReturned' = (toReturned \/ ~ReturnValue(timeout_))
  /\ UNCHANGED <<count, nthreads, threads_left, passed_threads_, interrupted_, timeout_,
                 wait_at_barrier_, num_threads_in_wait_function_, crashed>>
  /\ UNCHANGED <<calls, nreg, regIdx, full, immediate, excK, intrAt, hit, toRound,
                 intrPending>>

\* the parties of the round being filled that are blocked in the condition wait
BlockedInRound == {u \in Threads : InRound(u) /\ pc[u] \in InCond}

\* lines 188-197
Interrupt ==
  /\ ~crashed
  /\ UNCHANGED cvars
  /\ used' = [used EXCEPT !.interrupts = @ + 1]
  /\ interrupted_' = TRUE
  /\ pc' = WakeAll(pc)
  /\ intrPending' = TRUE
  /\ hit' = [u \in Threads |-> hit[u] \/ pc[u] # "idle"]
  /\ intrAt' = [u \in Threads |->
                  IF threads_left > 0 /\ u \in BlockedInRound
                  THEN count - threads_left ELSE intrAt[u]]
  /\ UNCHANGED <<count, nthreads, threads_left, passed_threads_, timeout_,
                 wait_at_barrier_, num_threads_in_wait_function_, crashed>>
  /\ UNCHANGED <<calls, nreg, regIdx, full, retval, immediate, excK, toRound,
                 toReturned>>

\* lines 204-215.
\* passed_threads_.clear() is RefPtr::clear(), which drops the list and leaves
\* the RefPtr null (unlike passed_threads_->clear() of line 241).
Reset ==
  /\ ~crashed
  /\ UNCHANGED cvars
  /\ used' = [used EXCEPT !.busy = @ \/ \E u \in Threads : pc[u] # "idle",
                          !.resets = @ + 1]
  /\ interrupted_' = FALSE
  /\ timeout_' = FALSE
  /\ threads_left' = count
  /\ passed_threads_' = [ptr |-> FALSE, list |-> <<>>]
  /\ intrPending' = FALSE
  /\ toReturned' = FALSE
  /\ UNCHANGED <<count, nthreads, wait_at_barrier_, num_threads_in_wait_function_, pc, crashed>>
  /\ UNCHANGED <<calls, nreg, regIdx, full, retval, immediate, excK, intrAt, hit, toRound>>

\* a call of thread t: Thread::current_thread() throws when t is no Thread
AnyCall(t) == Call(t, IsForeign(t))

\* a caller of the general runs: any thread, any number of times
BoundedCall(t) == calls < MaxCalls /\ AnyCall(t)

\* interrupt() and reset() are called at any time, a bounded number of times
BoundedInterrupt == used.interrupts < MaxInterrupts /\ Interrupt
BoundedReset == used.resets < MaxResets /\ Reset

Next ==
  \/ \E t \in Threads : BoundedCall(t)
  \/ \E t \in Threads : TimerExpire(t)
  \/ \E t \in Threads : CondReturn(t)
  \/ \E t \in Threads : Throw(t)
  \/ \E t \in Threads : CheckBarrier(t)
  \/ \E t \in Threads : Dec(t)
  \/ \E t \in Threads : Ret(t)
  \/ BoundedInterrupt
  \/ BoundedReset

Spec == Init /\ [][Next]_vars

\* what a thread inside wait() does on its own, once it can run
Progress(t) == CondReturn(t) \/ Throw(t) \/ CheckBarrier(t) \/ Dec(t) \/ Ret(t)

\* Threads that can run do run; nobody is obliged to call wait(), interrupt()
\* or reset(), and no timeout is obliged to expire.
FairSpec == Spec /\ \A t \in Threads : WF_vars(Progress(t))

\* ----- the plain runs: k*N threads call wait() once each, no timeout expires,
\* ----- interrupt() and reset() are not called -------------------------------
InitPlain ==
  /\ \E n \in 1..MaxPlain : \E k \in 1..MaxPlain :
        /\ k * n <= MaxPlain
        /\ Constructed(n)
        /\ nthreads = k * n
  /\ HistInit /\ used \in UseCases
  /\ ThreadAtRest /\ ObserversAtRest /\ ExtrasAtRest

CallOnce(t) == retval[t] = "none" /\ pc[t] = "idle" /\ AnyCall(t)

NextPlain ==
  \/ \E t \in Threads : CallOnce(t)
  \/ \E t \in Threads : CondReturn(t)
  \/ \E t \in Threads : CheckBarrier(t)
  \/ \E t \in Threads : Dec(t)
  \/ \E t \in Threads : Ret(t)

PlainSpec == InitPlain /\ [][NextPlain]_vars

\* every thread makes its call, and every thread that can run does
FairPlainSpec ==
  PlainSpec /\ \A t \in Threads : WF_vars(CallOnce(t)) /\ WF_vars(Progress(t))

Parties == 1..nthreads

\* ----- the use the specification describes -----------------------------------
\* every party is a Thread of the framework ("exactly one native thread maps
\* to one Managed Thread instance"), so passed_threads() can name it
AllListed == used.foreign = 0

\* reset() has only been called with no thread inside wait() ("Caller must
\* guarantee no thread is currently inside wait()", lines 200-202)
ResetAsDocumented == ~used.busy

ProperlyUsed == AllListed /\ ResetAsDocumented

\* ----- C1 ------------------------------------------------------------------
\* all parties have returned true and passed_threads() holds exactly them
C1_Done ==
  /\ \A t \in Parties : retval[t] = "true" /\ pc[t] = "idle"
  /\ passed_threads_.ptr
  /\ SeqToSet(passed_threads_.list) = Parties
  /\ Len(passed_threads_.list) = count

\* C1: when exactly N threads call wait() once each on a fresh barrier of
\* count N (no timeout expires, no interrupt(), no reset()), the run reaches
\* the state where all N calls have returned true and passed_threads() holds
\* exactly the N callers. The callers are Threads of the framework: no other
\* caller can be named by passed_threads().
C1_BarrierCorrectness == (nthreads = count /\ AllListed) => <>C1_Done

C1_Witness == nthreads = count /\ count >= 2 /\ AllListed /\ C1_Done

\* ----- C3 ------------------------------------------------------------------
\* the i-th call to register belongs to round ceil(i/N) of a plain N-party
\* barrier, which ends with registration number N*ceil(i/N)
PlainRoundEnd(i) == count * ((i + count - 1) \div count)

C3_NoEarlyReturn ==
  \A t \in Parties : retval[t] # "none" => nreg >= PlainRoundEnd(regIdx[t])

C3_AllTrue == \A t \in Parties : retval[t] = "true"

\* C3: in a plain run of k*N threads the barrier is an N-party barrier: no
\* call returns before the N calls of its round have registered, and every
\* one of the k*N calls returns true (the callers being Threads of the
\* framework).
C3_PlainBarrier == AllListed => ([]C3_NoEarlyReturn /\ <>C3_AllTrue)

\* ----- the reuse runs: the barrier is used round after round, no timeout
\* ----- expires, interrupt() and reset() are not called -----------------------
ReuseCall(t) == calls < MaxReuse /\ AnyCall(t)

NextReuse ==
  \/ \E t \in Threads : ReuseCall(t)
  \/ \E t \in Threads : CondReturn(t)
  \/ \E t \in Threads : CheckBarrier(t)
  \/ \E t \in Threads : Dec(t)
  \/ \E t \in Threads : Ret(t)

ReuseSpec == Init /\ [][NextReuse]_vars

FairReuseSpec == ReuseSpec /\ \A t \in Threads : WF_vars(Progress(t))

\* ----- C2 ------------------------------------------------------------------
\* C2: once the N-th party of a round has registered, every party registered
\* in that round leaves wait(), also when threads arrive for the next round
\* while parties of the finished round are still leaving (the callers being
\* Threads of the framework).
C2_NoMissedWakeup ==
  \A t \in Threads : (AllListed /\ full[t] /\ pc[t] # "idle") ~> (pc[t] = "idle")

\* ----- C4 ------------------------------------------------------------------
\* C4: when interrupt() is called in a round with K registered parties
\* (0 < K < N), each party of the round that is blocked in wait() leaves
\* wait() by the InterruptedException, and the exception reports K of N;
\* calls made after the interrupt change nothing of that. reset() is called
\* as documented, with no thread inside wait().
C4_InterruptCount ==
  \A t \in Threads :
    (ResetAsDocumented /\ intrAt[t] > 0) =>
      /\ pc[t] \in InCond \cup {"throw", "idle"}
      /\ pc[t] = "idle" => retval[t] = "exc" /\ excK[t] = intrAt[t]

C4_Witness ==
  \E t, u \in Threads :
    /\ t # u /\ count = 3 /\ intrAt[t] = 2 /\ retval[t] = "exc" /\ excK[t] = 2
    /\ immediate[u] /\ retval[u] = "true" /\ ~timeout_
    /\ pc[t] = "idle" /\ ResetAsDocumented

\* ----- C5 ------------------------------------------------------------------
\* runs in which no party arrives between interrupt() and the next reset()
QuietCall(t) == ~intrPending /\ BoundedCall(t)

NextQuiet ==
  \/ \E t \in Threads : QuietCall(t)
  \/ \E t \in Threads : TimerExpire(t)
  \/ \E t \in Threads : CondReturn(t)
  \/ \E t \in Threads : Throw(t)
  \/ \E t \in Threads : CheckBarrier(t)
  \/ \E t \in Threads : Dec(t)
  \/ \E t \in Threads : Ret(t)
  \/ BoundedInterrupt
  \/ BoundedReset

QuietSpec == Init /\ [][NextQuiet]_vars

FairQuietSpec == QuietSpec /\ \A t \in Threads : WF_vars(Progress(t))

\* C5: every thread that is inside wait() when interrupt() is called leaves
\* wait(); no further arrival is needed for that (in runs where the callers
\* are Threads of the framework and reset() is called as documented).
C5_InterruptFrees ==
  \A t \in Threads :
    (ProperlyUsed /\ hit[t] /\ pc[t] # "idle") ~> (pc[t] = "idle" \/ ~ProperlyUsed)

\* ----- C6 ------------------------------------------------------------------
\* C6: in a round that times out short of N arrivals no registered party
\* stays blocked (none is left unsignalled in the condition wait, none enters
\* the hard barrier), and every registered party returns false, but for those
\* that interrupt() catches inside wait(), which may raise the exception
\* instead. reset() is called as documented, with no thread inside wait().
C6_Timeout ==
  \A t \in Threads :
    (ResetAsDocumented /\ toRound[t]) =>
      /\ pc[t] \notin {"cond", "hard", "crashed"}
      /\ (pc[t] = "idle" /\ ~hit[t]) => retval[t] = "false"
      /\ (pc[t] = "idle" /\ hit[t]) => retval[t] \in {"false", "exc"}

\* ----- C7 ------------------------------------------------------------------
\* C7: a call of wait() that returns a value returns true exactly when all N
\* parties of its round arrived.
C7_TrueIffComplete ==
  \A t \in Threads :
    (ProperlyUsed /\ pc[t] = "idle" /\ retval[t] \in {"true", "false"}) =>
       (retval[t] = "true" <=> full[t])

\* ----- C8 ------------------------------------------------------------------
\* C8: between interrupt() and the next reset() no call of wait() blocks and
\* no call completes a round.
C8_UnusableAfterInterrupt ==
  [][ (ProperlyUsed' /\ intrPending /\ calls' = calls + 1) =>
        /\ \A t \in Threads : pc[t] = "idle" => pc'[t] \notin InCond
        /\ ~(nreg' = nreg + 1 /\ threads_left' = 0) ]_vars

\* ----- C9 ------------------------------------------------------------------
\* C9: between a wait() that returned false and the next reset() the barrier
\* stays timed out: every call of wait() returns at once and registers nothing.
C9_StaysTimedOut ==
  [][ (ProperlyUsed' /\ toReturned /\ calls' = calls + 1) =>
        (pc' = pc /\ nreg' = nreg /\ timeout_') ]_vars

\* ----- C10 -----------------------------------------------------------------
\* C10: a call of wait() that finds the interrupted or the timed-out flag set
\* returns at once and leaves threads_left, the passed list, both flags and
\* the in-wait counter as they were.
C10_ImmediateReturnFrame ==
  [][ (ProperlyUsed' /\ (interrupted_ \/ timeout_) /\ calls' = calls + 1) =>
        /\ pc' = pc
        /\ UNCHANGED <<threads_left, passed_threads_, interrupted_, timeout_,
                       num_threads_in_wait_function_>> ]_vars

\* ----- C11 -----------------------------------------------------------------
\* lines 320-330
no_threads_in_wait == num_threads_in_wait_function_ = 0

\* t is executing wait(); the return statement of line 312, which follows the
\* decrement, is not counted
InsideWait(t) == pc[t] \notin {"idle", "ret"}

\* C11: no_threads_in_wait() is true exactly when no thread is executing
\* wait(): the in-wait counter is zero again once all callers have left, by
\* return or by exception.
C11_InWaitCounter ==
  (ProperlyUsed /\ ~crashed) => (no_threads_in_wait <=> \A t \in Threads : ~InsideWait(t))

\* ----- C12 -----------------------------------------------------------------
\* a step of reset(): the only step that leaves every thread where it is,
\* makes no call and leaves the interrupted flag false
ResetStep == calls' = calls /\ pc' = pc /\ ~interrupted_'

\* C12: reset() leaves both flags false, threads_left = N and passed_threads()
\* a valid empty list, and no later wait() call fails to register.
C12_ResetReady ==
  [][ ProperlyUsed' =>
        /\ ResetStep =>
              /\ ~timeout_' /\ threads_left' = count
              /\ passed_threads_'.ptr /\ passed_threads_'.list = <<>>
        /\ ~crashed' ]_vars

\* ----- C13 -----------------------------------------------------------------
\* the round being filled has failed (timeout or interrupt) with 0 < K < N
\* arrivals
FailedRound ==
  (interrupted_ \/ timeout_) /\ threads_left > 0 /\ threads_left < count

\* C13: while the barrier is in a round that failed with K < N arrivals,
\* passed_threads() holds K distinct parties and no step changes it: callers
\* arriving after the failure are not added.
C13_PassedAfterFailure ==
  [][ (AllListed /\ FailedRound /\ ~crashed) =>
        /\ passed_threads_.ptr
        /\ Len(passed_threads_.list) = count - threads_left
        /\ Cardinality(SeqToSet(passed_threads_.list)) = count - threads_left
        /\ FailedRound' => passed_threads_' = passed_threads_ ]_vars

C13_Witness ==
  \E t, u \in Threads :
    /\ AllListed /\ FailedRound /\ count = 3 /\ threads_left = 1
    /\ immediate[t] /\ retval[t] = "true" /\ pc[t] = "idle"
    /\ t \notin SeqToSet(passed_threads_.list)
    /\ u \in SeqToSet(passed_threads_.list) /\ retval[u] = "false"

\* ----- C14 -----------------------------------------------------------------
\* C14: threads_left stays within 0..N, at most N parties are registered, and
\* once a call has registered the registered parties and threads_left add up
\* to N.
C14_Counts ==
  ~crashed =>
    /\ threads_left \in 0..count
    /\ Len(passed_threads_.list) <= count
    /\ (nreg > 0 /\ AllListed) => Len(passed_threads_.list) + threads_left = count

C14_Witness ==
  /\ AllListed /\ count = 3 /\ nreg = 3 /\ threads_left = 0
  /\ Len(passed_threads_.list) = 3 /\ ~crashed

\* ----- C20 -----------------------------------------------------------------
\* C20: a party is inside Barrier::wait() only if all N parties of its round
\* arrived, and a party of a round that timed out short of N arrivals is never
\* inside it, after every history of rounds and of reset() calls made as
\* documented (with no thread inside wait()).
C20_HardBarrierOnlyWhenFull ==
  ResetAsDocumented =>
    \A t \in Threads :
      /\ pc[t] = "hard" => full[t]
      /\ toRound[t] => pc[t] # "hard"

\* ----- C15: the constructors ---------------------------------------------------

\* a constructor that accepts every count
CtorThrows_Never(n) == FALSE

\* lines 87-89 and 110-112: if (_count == 0) throw Exception(...)
CtorThrows(n) == n = 0

\* the storage of a barrier before a constructor has run: the members the
\* constructors assign hold arbitrary values, the RefPtr member is null
InitCtor ==
  /\ ctor = "none"
  /\ count = 0
  /\ nthreads = MaxThreads
  /\ threads_left \in 0..MaxGarbage
  /\ num_threads_in_wait_function_ \in 0..MaxGarbage
  /\ interrupted_ \in BOOLEAN
  /\ timeout_ \in BOOLEAN
  /\ wait_at_barrier_ \in BOOLEAN
  /\ passed_threads_ = [ptr |-> FALSE, list |-> <<>>]
  /\ pc = [t \in Threads |-> "idle"]
  /\ crashed = FALSE
  /\ HistInit /\ used = ProperUse
  /\ ThreadAtRest /\ ObserversAtRest /\ ExtrasAtRest

\* lines 84-97 (m = "own") and lines 107-120 (m = "ext", the caller's mutex)
Construct(n, m) ==
  /\ ctor = "none"
  /\ count' = n
  /\ IF CtorThrows(n)
     THEN /\ ctor' = "threw"
          /\ UNCHANGED <<threads_left, passed_threads_, interrupted_, timeout_,
                         num_threads_in_wait_function_>>
     ELSE /\ ctor' = m
          /\ threads_left' = 0
          /\ passed_threads_' = [ptr |-> TRUE, list |-> <<>>]
          /\ interrupted_' = FALSE
          /\ timeout_' = FALSE
          /\ num_threads_in_wait_function_' = 0
  /\ UNCHANGED <<nthreads, wait_at_barrier_, pc, crashed>>
  /\ UNCHANGED hvars
  /\ UNCHANGED <<thread, thobs, observers, bbseen, evars, used>>

NextCtor == \E n \in 0..MaxCount : \E m \in {"own", "ext"} : Construct(n, m)

CtorSpec == InitCtor /\ [][NextCtor]_vars

\* C15: either constructor called with count 0 throws and leaves no barrier
\* to use; called with a count >= 1 it yields a barrier with both flags false
\* and the in-wait counter 0.
C15_Constructor ==
  [][ /\ (ctor = "none" /\ ctor' # "none") =>
          IF count' = 0
            THEN ctor' = "threw"
            ELSE /\ ctor' \in {"own", "ext"}
                 /\ ~interrupted_' /\ ~timeout_'
                 /\ num_threads_in_wait_function_' = 0
      /\ ctor # "threw" ]_vars

C15_Witness == ctor = "threw" /\ count = 0 /\ interrupted_ /\ ~passed_threads_.ptr

\* ----- Thread (thread.h; the bodies after sections 3 and 4.1) ------------------

\* the barrier at rest while another component is exercised
BarrierAtRest ==
  /\ Constructed(1)
  /\ nthreads = MaxThreads
  /\ HistInit /\ used = ProperUse

WFW == "OPMODE_WAITFORWAKEUP"

\* a wakeup() that always increments
WakeupCount_NoCoalesce(coalesce, p) == p + 1

\* wakeup(): the pending count is incremented, coalesced to at most one
WakeupCount(coalesce, p) == IF coalesce THEN 1 ELSE p + 1

\* Thread::wakeup() (thread.h line 87): only for wait-for-wakeup threads
WakeupOn(th) ==
  IF th.op_mode_ = WFW
    THEN [th EXCEPT !.pending_wakeups_ = WakeupCount(th.coalesce_wakeups_, @)]
    ELSE th

\* the thread takes one pending wakeup and runs loop()
Consume(th) == [th EXCEPT !.pending_wakeups_ = @ - 1, !.waiting_for_wakeup_ = FALSE,
                          !.at = "loop"]

ConsumeSeen(ob) == [ob EXCEPT !.consumed = @ + 1, !.loops = @ + 1,
                              !.sinceConsume = 0, !.owed = FALSE]

\* the thread enters its sleep wait: it goes on at once if a wakeup is
\* pending and blocks otherwise
SleepWait(th) ==
  IF th.pending_wakeups_ > 0 THEN Consume(th)
  ELSE [th EXCEPT !.at = "sleep", !.waiting_for_wakeup_ = TRUE]

SleepWaitSeen(th, ob) == IF th.pending_wakeups_ > 0 THEN ConsumeSeen(ob) ELSE ob

\* after init, and after every loop(): the next iteration in continuous mode,
\* the sleep wait in wait-for-wakeup mode
NextIteration(th) ==
  IF th.op_mode_ = WFW THEN SleepWait(th) ELSE [th EXCEPT !.at = "loop"]

NextIterationSeen(th, ob) ==
  IF th.op_mode_ = WFW THEN SleepWaitSeen(th, ob) ELSE [ob EXCEPT !.loops = @ + 1]

RECURSIVE InformAll(_)
\* notify_of_failed_init() telling the first listener only
InformAll_FirstOnly(ls) == IF ls = <<>> THEN <<>> ELSE <<Head(ls)>>

\* notify_of_failed_init() (thread.h line 127): thread_init_failed() of every
\* notification listener, in order
InformAll(ls) == IF ls = <<>> THEN <<>> ELSE <<Head(ls)>> \o InformAll(Tail(ls))

UnchangedByThread == UNCHANGED <<bvars, hvars, ctor, observers, bbseen, evars, used>>

\* add_notification_listener() (thread.h line 124), idempotent per listener
AddNotificationListener(l) ==
  /\ thread.at = "new"
  /\ thread' = [thread EXCEPT !.notification_listeners_ =
                   IF l \in SeqToSet(@) THEN @ ELSE Append(@, l)]
  /\ UNCHANGED thobs
  /\ UnchangedByThread

\* set_coalesce_wakeups() (thread.h line 142), called before the thread is used
SetCoalesceWakeups(b) ==
  /\ thread.at = "new" /\ thobs.issued = 0
  /\ thread' = [thread EXCEPT !.coalesce_wakeups_ = b]
  /\ UNCHANGED thobs
  /\ UnchangedByThread

\* start(wait = true) (thread.h line 79): the native thread is spawned and runs init
Start ==
  /\ thread.at = "new"
  /\ thread' = [thread EXCEPT !.at = "init", !.started_ = TRUE]
  /\ thobs' = [thobs EXCEPT !.starter = "waiting"]
  /\ UnchangedByThread

\* init succeeded: the starter is released and the thread goes on to its loop
InitOk ==
  /\ thread.at = "init"
  /\ thread' = NextIteration(thread)
  /\ thobs' = [NextIterationSeen(thread, thobs) EXCEPT !.starter = "returned"]
  /\ UnchangedByThread

\* init failed: the exception is caught at the entry of the native thread,
\* notify_of_failed_init() runs and the thread ends
InitFail ==
  /\ thread.at = "init"
  /\ thread' = [thread EXCEPT !.at = "exited", !.flags_bad = TRUE]
  /\ thobs' = [thobs EXCEPT !.informed = InformAll(thread.notification_listeners_),
                            !.initFailed = TRUE, !.starter = "returned"]
  /\ UnchangedByThread

\* wakeup() called by another thread
Wakeup ==
  /\ thobs.issued < MaxWakeups
  /\ thread' = WakeupOn(thread)
  /\ thobs' = [thobs EXCEPT !.issued = @ + 1, !.sinceConsume = @ + 1]
  /\ UnchangedByThread

\* loop() returns
LoopDone ==
  /\ thread.at = "loop"
  /\ thread.op_mode_ = WFW \/ thobs.loops < MaxLoops
  /\ thread' = NextIteration(thread)
  /\ thobs' = NextIterationSeen(thread, thobs)
  /\ UnchangedByThread

\* the sleeping thread has been signalled
Resume ==
  /\ thread.at = "sleep"
  /\ thread.pending_wakeups_ > 0
  /\ thread' = Consume(thread)
  /\ thobs' = ConsumeSeen(thobs)
  /\ UnchangedByThread

InitThread ==
  /\ BarrierAtRest /\ ObserversAtRest /\ ExtrasAtRest
  /\ \E mode \in {"OPMODE_CONTINUOUS", WFW} : thread = ThreadConstructed(mode)
  /\ thobs = ThreadUnobserved

NextThread ==
  \/ \E l \in Listeners : AddNotificationListener(l)
  \/ \E b \in BOOLEAN : SetCoalesceWakeups(b)
  \/ Start
  \/ InitOk
  \/ InitFail
  \/ Wakeup
  \/ LoopDone
  \/ Resume

ThreadSpec == InitThread /\ [][NextThread]_vars

Min(a, b) == IF a < b THEN a ELSE b

\* ----- C16 -----------------------------------------------------------------
\* C16: for a thread in wait-for-wakeup mode every consumed wakeup is one
\* loop iteration; with coalescing the pending count is never above 1 and the
\* wakeup() calls issued since the thread last took one leave exactly one to
\* consume, without coalescing every wakeup() call is consumed or pending.
C16_WakeupCoalescing ==
  thread.op_mode_ = WFW =>
    /\ thobs.loops = thobs.consumed
    /\ IF thread.coalesce_wakeups_
         THEN /\ thread.pending_wakeups_ <= 1
              /\ thread.pending_wakeups_ = Min(thobs.sinceConsume, 1)
         ELSE thread.pending_wakeups_ + thobs.consumed = thobs.issued

\* two wakeup() calls before the sleep wait, one iteration, nothing pending
C16_Witness ==
  /\ thread.op_mode_ = WFW /\ thread.coalesce_wakeups_
  /\ thobs.issued = 2 /\ thobs.consumed = 1 /\ thobs.loops = 1
  /\ thread.pending_wakeups_ = 0 /\ thread.at = "sleep"

\* ----- C19 -----------------------------------------------------------------
\* C19: once init has failed, every registered notification listener has
\* been told thread_init_failed, the thread is flagged bad, the caller of
\* start() has returned normally and the thread has ended without a loop
\* iteration.
C19_FailedInit ==
  thobs.initFailed =>
    /\ thobs.informed = thread.notification_listeners_
    /\ thread.flags_bad
    /\ thobs.starter = "returned"
    /\ thread.at = "exited"
    /\ thobs.loops = 0

C19_Witness ==
  /\ thobs.initFailed /\ Len(thread.notification_listeners_) = 2
  /\ Len(thobs.informed) = 2 /\ thread.flags_bad

\* ----- BlackBoardOnMessageWaker (on_message_waker.h, section 4.4) --------------

Instances == {"X", "Y"}

\* on_message_waker.h line 38: the interface instance the waker is registered for
BoundInstance == "X"

\* a notifier that tells every listener of every message
ListenerOf_Any(i) == TRUE

\* notify_message(i) reaches the listeners bound to exactly that instance
ListenerOf(i) == i = BoundInstance

\* bb_interface_message_received() (on_message_waker.h line 41): if the thread
\* is in wait-for-wakeup mode, wakeup() is called on it
WakerCallback(th) == IF th.op_mode_ = WFW THEN WakeupOn(th) ELSE th

\* a message is enqueued on interface instance i
NotifyMessage(i) ==
  /\ thobs.notified.X + thobs.notified.Y < MaxWakeups
  /\ thread' = IF ListenerOf(i) THEN WakerCallback(thread) ELSE thread
  /\ thobs' = [thobs EXCEPT
                 !.notified[i] = @ + 1,
                 !.issued = IF ListenerOf(i) /\ thread.op_mode_ = WFW THEN @ + 1 ELSE @,
                 !.sinceConsume = IF ListenerOf(i) /\ thread.op_mode_ = WFW THEN @ + 1 ELSE @,
                 !.owed = IF i = BoundInstance /\ thread.op_mode_ = WFW THEN TRUE ELSE @]
  /\ UnchangedByThread

NextWaker ==
  \/ \E b \in BOOLEAN : SetCoalesceWakeups(b)
  \/ Start
  \/ InitOk
  \/ \E i \in Instances : NotifyMessage(i)
  \/ LoopDone
  \/ Resume

WakerSpec == InitThread /\ [][NextWaker]_vars

\* the thread is started, and runs whenever it can
FairWakerSpec ==
  WakerSpec /\ WF_vars(Start) /\ WF_vars(InitOk) /\ WF_vars(LoopDone) /\ WF_vars(Resume)

\* ----- C17 -----------------------------------------------------------------
C17_Safe ==
  /\ thread.op_mode_ = WFW => thobs.loops <= thobs.notified.X
  /\ thread.op_mode_ # WFW => thread.pending_wakeups_ = 0 /\ thobs.issued = 0

\* C17: a thread in wait-for-wakeup mode runs a loop iteration after a message
\* notification for X and runs none on account of a notification for Y; a
\* thread in continuous mode is never handed a wakeup by the waker.
C17_MessageWake == []C17_Safe /\ (thobs.owed ~> ~thobs.owed)

C17_Witness ==
  /\ thread.op_mode_ = WFW
  /\ thobs.notified.X = 1 /\ thobs.notified.Y >= 1
  /\ thobs.loops = 1 /\ thread.at = "sleep" /\ ~thobs.owed

\* ----- BlackBoardInterfaceObserver (interface_observer.h, section 4.3) ---------

TypePatterns == {<<"*">>, <<"L", "*">>}
IdPatterns   == {<<"*">>, <<"f">>}
TypeNames    == {<<"L", "a">>, <<"C">>}
IdNames      == {<<"f">>, <<"r">>}
Kinds        == {"create", "destroy"}

RECURSIVE GlobMatch(_, _)
\* glob matching: * matches any sequence, every other character itself
GlobMatch(pat, str) ==
  IF pat = <<>> THEN str = <<>>
  ELSE IF Head(pat) = "*"
    THEN GlobMatch(Tail(pat), str) \/ (str # <<>> /\ GlobMatch(pat, Tail(str)))
    ELSE str # <<>> /\ Head(pat) = Head(str) /\ GlobMatch(Tail(pat), Tail(str))

RECURSIVE AddObserved(_, _, _)
\* bbio_add_observed_create/destroy (interface_observer.h lines 48-49) on a
\* map from type pattern to the list of id patterns (line 52); idempotent
AddObserved(m, tp, ip) ==
  IF m = <<>> THEN << [type_pattern |-> tp, ids |-> <<ip>>] >>
  ELSE IF Head(m).type_pattern = tp
    THEN IF ip \in SeqToSet(Head(m).ids) THEN m
         ELSE << [Head(m) EXCEPT !.ids = Append(@, ip)] >> \o Tail(m)
    ELSE << Head(m) >> \o AddObserved(Tail(m), tp, ip)

RECURSIVE AnyIdMatches(_, _)
AnyIdMatches(ids, id) ==
  IF ids = <<>> THEN FALSE
  ELSE GlobMatch(Head(ids), id) \/ AnyIdMatches(Tail(ids), id)

RECURSIVE CallbacksFor_PerPattern(_, _, _)
\* a dispatch that calls the observer for every matching type pattern
CallbacksFor_PerPattern(m, type, id) ==
  IF m = <<>> THEN 0
  ELSE (IF GlobMatch(Head(m).type_pattern, type) /\ AnyIdMatches(Head(m).ids, id)
          THEN 1 ELSE 0) + CallbacksFor_PerPattern(Tail(m), type, id)

RECURSIVE CallbacksFor(_, _, _)
\* the notifier tests the event against the pattern pairs of one observer in
\* turn and calls the observer at the first pair that matches
CallbacksFor(m, type, id) ==
  IF m = <<>> THEN 0
  ELSE IF GlobMatch(Head(m).type_pattern, type) /\ AnyIdMatches(Head(m).ids, id)
    THEN 1
    ELSE CallbacksFor(Tail(m), type, id)

UnchangedByObservers == UNCHANGED <<bvars, hvars, ctor, thread, thobs, evars, used>>

\* observer o registers interest in kind k
AddObservedPattern(o, k, tp, ip) ==
  /\ bbseen.nregs < MaxRegs
  /\ observers' = [observers EXCEPT ![o][k] = AddObserved(@, tp, ip)]
  /\ bbseen' = [NoEvent EXCEPT !.nregs = bbseen.nregs + 1]
  /\ UnchangedByObservers

\* notify_created / notify_destroyed: every observer is dispatched to
NotifyLifecycle(k, type, id) ==
  /\ bbseen' = [kind |-> k, type |-> type, id |-> id, nregs |-> bbseen.nregs,
                cbs |-> [o \in Observers |-> CallbacksFor(observers[o][k], type, id)]]
  /\ UNCHANGED observers
  /\ UnchangedByObservers

InitObservers ==
  /\ BarrierAtRest /\ ThreadAtRest /\ ObserversAtRest /\ ExtrasAtRest

NextObservers ==
  \/ \E o \in Observers : \E k \in Kinds : \E tp \in TypePatterns : \E ip \in IdPatterns :
        AddObservedPattern(o, k, tp, ip)
  \/ \E k \in Kinds : \E type \in TypeNames : \E id \in IdNames :
        NotifyLifecycle(k, type, id)

ObserverSpec == InitObservers /\ [][NextObservers]_vars

\* ----- C18 -----------------------------------------------------------------
\* C18: for the latest event every observer with a registered pair matching
\* (type, id) in the interest set of the event's kind got exactly one
\* callback, every other observer none.
C18_OncePerObserver ==
  bbseen.kind # "none" =>
    \A o \in Observers :
      bbseen.cbs[o] =
        IF \E e \in DOMAIN observers[o][bbseen.kind] :
             \E j \in DOMAIN observers[o][bbseen.kind][e].ids :
               /\ GlobMatch(observers[o][bbseen.kind][e].type_pattern, bbseen.type)
               /\ GlobMatch(observers[o][bbseen.kind][e].ids[j], bbseen.id)
        THEN 1 ELSE 0

\* observer 1 has two create patterns that both match the created interface,
\* observer 2 has only a destroy pattern, which matches it too
C18_Witness ==
  /\ bbseen.kind = "create" /\ bbseen.type = <<"L", "a">> /\ bbseen.nregs = 3
  /\ Len(observers[1].create) = 2
  /\ \A e \in 1..2 : GlobMatch(observers[1].create[e].type_pattern, bbseen.type)
  /\ observers[2].create = <<>> /\ Len(observers[2].destroy) = 1
  /\ GlobMatch(observers[2].destroy[1].type_pattern, bbseen.type)
  /\ bbseen.cbs[1] = 1 /\ bbseen.cbs[2] = 0

\* ----- C21 -----------------------------------------------------------------
\* C21: interrupt() called after the N-th party of a round has registered does
\* not fail the round: no party of the complete round leaves wait() by the
\* InterruptedException, each of them returns true.
C21_NoInterruptAfterRelease ==
  \A t \in Threads :
    (ProperlyUsed /\ full[t] /\ hit[t]) =>
      /\ pc[t] # "throw"
      /\ pc[t] = "idle" => retval[t] = "true"

\* ----- C22 -----------------------------------------------------------------
\* C22: a party of a complete round enters the hard barrier whatever the next
\* round does meanwhile: when it leaves the check of line 300 it has read
\* wait_at_barrier_ as the N-th arrival of its own round set it.
C22_RoundsIndependent ==
  [][ \A t \in Threads :
        (ProperlyUsed' /\ full[t] /\ pc[t] = "chk" /\ pc'[t] # "chk")
           => wait_at_barrier_ ]_vars

\* ----- C25 -----------------------------------------------------------------
\* C25: the timed-out flag is set only in a round short of N arrivals:
\* timeout_ implies threads_left > 0.
C25_TimeoutOnlyWhenShort ==
  (ProperlyUsed /\ timeout_ /\ ~crashed) => threads_left > 0

\* ----- wait(), interrupt(), reset() and no_threads_in_wait() with the mutex
\* ----- explicit: a stretch from mutex->lock() to the statement before the
\* ----- next unlock is one action, the unlock is an action of its own ---------

\* an unlock that leaves the mutex with its holder
UnlockedBy_Keeps(h) == h

\* data_->mutex->unlock(), lines 196, 214, 247, 280, 298, 310 and 327
UnlockedBy(h) == MFree

\* who holds the mutex when the stretch of thread t ends at stage p:
\* reltimed_wait releases the mutex while the thread is blocked (lines 268-270)
HolderAfter(t, p) == IF p = "cond" THEN MFree ELSE HeldByThread(t)

\* the unlock a thread is about to execute when its stretch ends at stage p
UnlockAt(p) ==
  IF p = "cond" THEN "cond"
  ELSE IF p = "throw" THEN "unlock280"
  ELSE "unlock298"

\* where the thread is once the unlock is done
AfterUnlock(p) ==
  IF p = "unlock247" THEN "idle"
  ELSE IF p = "unlock280" THEN "throw"
  ELSE IF p = "unlock298" THEN "chk"
  ELSE "ret"

UnlockStages == {"unlock247", "unlock280", "unlock298", "unlock310"}

\* an access to the shared round state by holder-to-be h
Access(h, what) == [by |-> h, what |-> what, held |-> mutex = h]

UnchangedByLock == UNCHANGED <<ctor, thread, thobs, observers, bbseen, kvars, nvars, used>>
HistUnchanged ==
  UNCHANGED <<nreg, regIdx, full, retval, immediate, excK, intrAt, hit, toRound,
              intrPending, toReturned>>

\* lines 233-271 (and on to 296 when the loop is not entered)
LkEnter(t, fgn) ==
  /\ ~crashed
  /\ t \in 1..nthreads /\ pc[t] = "idle"
  /\ calls < MaxLockCalls
  /\ mutex = MFree                                      \* line 234
  /\ calls' = calls + 1
  /\ acc' = [by |-> HeldByThread(t), what |-> "round", held |-> TRUE]
  /\ IF ReturnsImmediately(threads_left, interrupted_, timeout_)
     THEN /\ pc' = [pc EXCEPT ![t] = "unlock247"]
          /\ mutex' = HeldByThread(t)
          /\ UNCHANGED <<threads_left, passed_threads_, interrupted_, timeout_,
                         wait_at_barrier_, num_threads_in_wait_function_, crashed>>
     ELSE IF threads_left = 0 /\ ~passed_threads_.ptr
     THEN /\ crashed' = TRUE                                  \* line 241
          /\ mutex' = HeldByThread(t)
          /\ num_threads_in_wait_function_' = num_threads_in_wait_function_ + 1
          /\ threads_left' = count
          /\ interrupted_' = FALSE
          /\ timeout_' = FALSE
          /\ wait_at_barrier_' = FALSE
          /\ pc' = [pc EXCEPT ![t] = "crashed"]
          /\ UNCHANGED passed_threads_
     ELSE IF ~passed_threads_.ptr /\ ~fgn
     THEN /\ crashed' = TRUE                                  \* line 254
          /\ mutex' = HeldByThread(t)
          /\ num_threads_in_wait_function_' = num_threads_in_wait_function_ + 1
          /\ threads_left' = threads_left - 1
          /\ pc' = [pc EXCEPT ![t] = "crashed"]
          /\ UNCHANGED <<passed_threads_, interrupted_, timeout_, wait_at_barrier_>>
     ELSE LET first == threads_left = 0
              b0    == IF first THEN FirstToCome(Shared, count) ELSE Shared
              lst   == PushBack_(IF first THEN <<>> ELSE passed_threads_.list, t, fgn)
              b1    == [b0 EXCEPT !.tl = @ - 1]
              b2    == WaitLoop(b1, t, IsWaker(b1.tl), FALSE)
          IN  /\ threads_left' = b2.tl
              /\ interrupted_' = b2.intr
              /\ timeout_' = b2.to
              /\ wait_at_barrier_' = b2.wab
              /\ pc' = [b2.pc EXCEPT ![t] = UnlockAt(b2.pc[t])]
              /\ mutex' = HolderAfter(t, b2.pc[t])
              /\ passed_threads_' = [passed_threads_ EXCEPT !.list = lst]
              /\ num_threads_in_wait_function_' = num_threads_in_wait_function_ + 1
              /\ UNCHANGED crashed
  /\ UNCHANGED <<count, nthreads, opc>>
  /\ HistUnchanged /\ UnchangedByLock

\* line 269: the timer of a blocked thread expires
LkTimerExpire(t) ==
  /\ ~crashed
  /\ pc[t] = "cond"
  /\ pc' = [pc EXCEPT ![t] = "expired"]
  /\ UNCHANGED <<count, nthreads, threads_left, passed_threads_, interrupted_, timeout_,
                 wait_at_barrier_, num_threads_in_wait_function_, crashed>>
  /\ UNCHANGED <<hvars, lvars>> /\ UnchangedByLock

\* lines 269-296: reltimed_wait re-acquires the mutex and returns
LkCondReturn(t) ==
  /\ ~crashed
  /\ pc[t] \in {"woken", "expired"}
  /\ mutex = MFree                                      \* line 270
  /\ acc' = [by |-> HeldByThread(t), what |-> "round", held |-> TRUE]
  /\ LET b2 == WaitLoop(Shared, t, FALSE, pc[t] = "expired")
     IN  /\ threads_left' = b2.tl
         /\ interrupted_' = b2.intr
         /\ timeout_' = b2.to
         /\ wait_at_barrier_' = b2.wab
         /\ pc' = [b2.pc EXCEPT ![t] = UnlockAt(b2.pc[t])]
         /\ mutex' = HolderAfter(t, b2.pc[t])
  /\ UNCHANGED <<count, nthreads, passed_threads_, num_threads_in_wait_function_,
                 crashed, opc>>
  /\ UNCHANGED hvars /\ UnchangedByLock

\* lines 247, 280, 298 and 310
LkUnlock(t) ==
  /\ ~crashed
  /\ pc[t] \in UnlockStages
  /\ mutex' = UnlockedBy(mutex)
  /\ pc' = [pc EXCEPT ![t] = AfterUnlock(@)]
  /\ UNCHANGED <<count, nthreads, threads_left, passed_threads_, interrupted_, timeout_,
                 wait_at_barrier_, num_threads_in_wait_function_, crashed, opc, acc>>
  /\ UNCHANGED hvars /\ UnchangedByLock

\* lines 281-284: threads_left is read for the exception text
LkThrow(t) ==
  /\ ~crashed
  /\ pc[t] = "throw"
  /\ acc' = Access(HeldByThread(t), "threads_left")
  /\ pc' = [pc EXCEPT ![t] = "idle"]
  /\ UNCHANGED <<count, nthreads, threads_left, passed_threads_, interrupted_, timeout_,
                 wait_at_barrier_, num_threads_in_wait_function_, crashed, mutex, opc>>
  /\ UNCHANGED hvars /\ UnchangedByLock

\* lines 300-303
LkCheckBarrier(t) ==
  /\ ~crashed
  /\ pc[t] = "chk"
  /\ acc' = Access(HeldByThread(t), "wait_at_barrier_")
  /\ pc' = IF wait_at_barrier_ THEN BarrierWait(pc, t, count)
                               ELSE [pc EXCEPT ![t] = "dec"]
  /\ UNCHANGED <<count, nthreads, threads_left, passed_threads_, interrupted_, timeout_,
                 wait_at_barrier_, num_threads_in_wait_function_, crashed, mutex, opc>>
  /\ UNCHANGED hvars /\ UnchangedByLock

\* lines 305-308
LkDec(t) ==
  /\ ~crashed
  /\ pc[t] = "dec"
  /\ mutex = MFree                                      \* line 306
  /\ mutex' = HeldByThread(t)
  /\ acc' = [by |-> HeldByThread(t), what |-> "num_threads_in_wait_function_",
             held |-> TRUE]
  /\ num_threads_in_wait_function_' = num_threads_in_wait_function_ - 1
  /\ pc' = [pc EXCEPT ![t] = "unlock310"]
  /\ UNCHANGED <<count, nthreads, threads_left, passed_threads_, interrupted_, timeout_,
                 wait_at_barrier_, crashed, opc>>
  /\ UNCHANGED hvars /\ UnchangedByLock

\* line 312
LkRet(t) ==
  /\ ~crashed
  /\ pc[t] = "ret"
  /\ acc' = Access(HeldByThread(t), "timeout_")
  /\ pc' = [pc EXCEPT ![t] = "idle"]
  /\ UNCHANGED <<count, nthreads, threads_left, passed_threads_, interrupted_, timeout_,
                 wait_at_barrier_, num_threads_in_wait_function_, crashed, mutex, opc>>
  /\ UNCHANGED hvars /\ UnchangedByLock

\* interrupt() lines 191-194, reset() lines 207-212, no_threads_in_wait()
\* lines 323-325
LkOp(o) ==
  /\ ~crashed
  /\ opc[o] = "idle"
  /\ mutex = MFree
  /\ mutex' = HeldByOp(o)
  /\ opc' = [opc EXCEPT ![o] = "unlock"]
  /\ acc' = [by |-> HeldByOp(o), what |-> o, held |-> TRUE]
  /\ IF o = "interrupt"
     THEN /\ interrupted_' = TRUE
          /\ pc' = WakeAll(pc)
          /\ UNCHANGED <<threads_left, passed_threads_, timeout_>>
     ELSE IF o = "reset"
     THEN /\ interrupted_' = FALSE
          /\ timeout_' = FALSE
          /\ threads_left' = count
          /\ passed_threads_' = [ptr |-> FALSE, list |-> <<>>]
          /\ UNCHANGED pc
     ELSE UNCHANGED <<threads_left, passed_threads_, interrupted_, timeout_, pc>>
  /\ UNCHANGED <<count, nthreads, wait_at_barrier_, num_threads_in_wait_function_, crashed>>
  /\ UNCHANGED hvars /\ UnchangedByLock

\* lines 196, 214 and 327
LkOpUnlock(o) ==
  /\ ~crashed
  /\ opc[o] = "unlock"
  /\ mutex' = UnlockedBy(mutex)
  /\ opc' = [opc EXCEPT ![o] = "idle"]
  /\ UNCHANGED <<bvars, hvars, acc>> /\ UnchangedByLock

InitLock ==
  /\ \E n \in 1..MaxLockThreads : Constructed(n)
  /\ nthreads = MaxLockThreads
  /\ HistInit /\ used \in UseCases
  /\ ThreadAtRest /\ ObserversAtRest /\ ExtrasAtRest

NextLock ==
  \/ \E t \in Threads : LkEnter(t, IsForeign(t))
  \/ \E t \in Threads : LkTimerExpire(t)
  \/ \E t \in Threads : LkCondReturn(t)
  \/ \E t \in Threads : LkUnlock(t)
  \/ \E t \in Threads : LkThrow(t)
  \/ \E t \in Threads : LkCheckBarrier(t)
  \/ \E t \in Threads : LkDec(t)
  \/ \E t \in Threads : LkRet(t)
  \/ \E o \in OpNames : LkOp(o)
  \/ \E o \in OpNames : LkOpUnlock(o)

LockSpec == InitLock /\ [][NextLock]_vars

\* a thread that holds the mutex goes on to its unlock
FairLockSpec ==
  /\ LockSpec
  /\ \A t \in Threads : WF_vars(LkUnlock(t))
  /\ \A o \in OpNames : WF_vars(LkOpUnlock(o))

\* ----- C23 -----------------------------------------------------------------
\* stages at which a thread is outside every locked stretch of wait()
Unlocked == {"idle", "cond", "woken", "expired", "throw", "chk", "hard", "dec", "ret"}

C23_NotHeldOutside ==
  /\ \A t \in Threads : pc[t] \in Unlocked => mutex # HeldByThread(t)
  /\ \A o \in OpNames : opc[o] = "idle" => mutex # HeldByOp(o)

\* C23: a thread blocked in Barrier::wait() does not hold the mutex, a thread
\* that has left wait() -- by return, immediate return or exception -- does
\* not hold it, and whoever holds the mutex releases it, so that the mutex
\* becomes free again and again.
C23_MutexReleased ==
  /\ []C23_NotHeldOutside
  /\ (mutex # MFree /\ ~crashed) ~> (mutex = MFree \/ crashed)

\* one party is blocked in the hard barrier while interrupt() holds the mutex
C23_Witness ==
  \E t \in Threads :
    /\ pc[t] = "hard" /\ mutex = HeldByOp("interrupt") /\ opc["interrupt"] = "unlock"

\* ----- C24 -----------------------------------------------------------------
\* C24: every access of wait(), interrupt(), reset() and no_threads_in_wait()
\* to the shared round state is made by the holder of the mutex.
C24_AllUnderMutex == acc.held

\* ----- KinovaGotoThread (plugins/kinova/goto_thread.cpp) ----------------------
\* The goto thread runs loop(); other threads call register_arm(),
\* unregister_arm(), the setters, stop() and final().  A stretch under
\* __arm->target_mutex or __final_mutex is one action; __final, __target and
\* __arm are read and written by loop() and _goto_target() without a lock,
\* each access an action.

SetterTypes == {"CARTESIAN", "ANGULAR", "READY", "RETRACT", "GRIPPER"}
TrajecStates == {"READY", "PLANNING_ERROR", "WAITING"}

\* line 298: __finger_last[3] > 10
FingerStill == 10

UnchangedByKinova ==
  UNCHANGED <<bvars, hvars, ctor, thread, thobs, observers, bbseen, lvars, nvars, used>>

KinovaRuns == kin.ub = "none"

\* __arm-> with __arm == NULL (before register_arm() or after
\* unregister_arm()), __target-> with an empty RefPtr, __final_mutex-> after
\* finalize(): the process dies on the null pointer
NullArm(k) == [k EXCEPT !.ub = "crashed"]

\* init(), lines 62-66: __final_mutex = new Mutex()
KInit ==
  /\ KinovaRuns
  /\ kin' = [kin EXCEPT !.final_mutex = TRUE]
  /\ UNCHANGED kobs /\ UnchangedByKinova

\* finalize(), lines 69-73: __final_mutex is deleted and set to NULL
KFinalize ==
  /\ KinovaRuns
  /\ kin' = [kin EXCEPT !.final_mutex = FALSE]
  /\ UNCHANGED kobs /\ UnchangedByKinova

\* register_arm(), lines 101-105
KRegisterArm ==
  /\ KinovaRuns
  /\ kin' = [kin EXCEPT !.arm = TRUE]
  /\ UNCHANGED kobs /\ UnchangedByKinova

\* unregister_arm(), lines 107-111
KUnregisterArm ==
  /\ KinovaRuns /\ kin.arm
  /\ kin' = [kin EXCEPT !.arm = FALSE]
  /\ UNCHANGED kobs /\ UnchangedByKinova

\* lines 133-135 (159-161, 168-170, 178-180, 194-196): push_back under the mutex
PushBack(k, id, ty, st) ==
  [k EXCEPT !.queue = Append(@, id), !.type[id] = ty, !.trajec_state[id] = st]

\* set_target, set_target_ang, pos_ready, pos_retract, move_gripper
KSetTarget(ty) ==
  /\ KinovaRuns
  /\ kobs.enqueued < MaxTargets
  /\ IF ~kin.arm
     THEN kin' = NullArm(kin) /\ UNCHANGED kobs
     ELSE /\ kin' = PushBack(kin, kobs.enqueued + 1, ty, "none")
          /\ kobs' = [kobs EXCEPT !.enqueued = @ + 1]
  /\ UnchangedByKinova

\* a trajectory target, enqueued by the planning thread in state st
KAddTrajec(st) ==
  /\ KinovaRuns /\ kin.arm
  /\ kobs.enqueued < MaxTargets
  /\ kin' = PushBack(kin, kobs.enqueued + 1, "TRAJEC", st)
  /\ kobs' = [kobs EXCEPT !.enqueued = @ + 1]
  /\ UnchangedByKinova

\* lines 306-315: no arm, or __final read; __target.clear() leaves it null
KLoopTest ==
  /\ KinovaRuns /\ kin.lpc = "top"
  /\ kin' = IF ~kin.arm \/ ~kin.final THEN kin
            ELSE [kin EXCEPT !.target = 0, !.lpc = "fetch"]
  /\ UNCHANGED kobs /\ UnchangedByKinova

\* lines 318-323: __target = front() if the queue is not empty
Front(q) == IF q = <<>> THEN 0 ELSE Head(q)

\* lines 325-376: what loop() does with the target it fetched
Dispatch(ty, st) ==
  IF ty = "TRAJEC"
    THEN IF st = "READY" THEN "exec"
         ELSE IF st = "PLANNING_ERROR" THEN "stop_arm"
         ELSE "top"
    ELSE "goto"

KLoopFetch ==
  /\ KinovaRuns /\ kin.lpc = "fetch"
  /\ LET id == Front(kin.queue) IN
       kin' = IF ~kin.arm THEN NullArm(kin)
              ELSE IF id = 0 THEN [kin EXCEPT !.lpc = "top"]
              ELSE [kin EXCEPT !.target = id,
                               !.lpc = Dispatch(kin.type[id], kin.trajec_state[id])]
  /\ UNCHANGED kobs /\ UnchangedByKinova

\* lines 391-396: _goto_target() resets the finger counter and sets
\* __final = false
KGoto ==
  /\ KinovaRuns /\ kin.lpc = "goto"
  /\ kin' = IF ~kin.arm THEN NullArm(kin)
            ELSE [kin EXCEPT !.final = FALSE, !.still = 0, !.lpc = "send"]
  /\ UNCHANGED kobs /\ UnchangedByKinova

\* line 415: a gripper target becomes an angular one
SentType(ty) == IF ty = "GRIPPER" THEN "ANGULAR" ELSE ty

\* what the try block of lines 399-452 comes to: the command is sent, or
\* arm->stop() of line 400 throws, or the goto call (427, 433, 439, 450) does
SendOutcomes == {"sent", "stop_throws", "goto_throws"}

\* lines 399-456: arm->stop(), the conversion of a gripper target, the goto
\* call; an exception goes to the catch of line 454 and is logged
KSend(o) ==
  /\ KinovaRuns /\ kin.lpc = "send"
  /\ IF ~kin.arm
     THEN kin' = NullArm(kin) /\ UNCHANGED kobs
     ELSE /\ kin' = IF o = "stop_throws" THEN [kin EXCEPT !.lpc = "pop"]
                    ELSE [kin EXCEPT !.type[kin.target] = SentType(@), !.lpc = "pop"]
          /\ kobs' = IF o = "sent" THEN [kobs EXCEPT !.sent = Append(@, kin.target)]
                     ELSE kobs
  /\ UnchangedByKinova

\* lines 332-334: trajec_state = TRAJEC_EXECUTING under the mutex
KExecMark ==
  /\ KinovaRuns /\ kin.lpc = "exec"
  /\ kin' = IF ~kin.arm THEN NullArm(kin)
            ELSE [kin EXCEPT !.trajec_state[kin.target] = "EXECUTING",
                             !.lpc = "exec_send"]
  /\ UNCHANGED kobs /\ UnchangedByKinova

\* lines 337-339 and _exec_trajec() down to line 471, for a trajectory of n
\* way points: an empty trajectory is skipped without a look at __arm; else
\* plot_first() and arm->stop() are called, and a throw of stop() (~ok) goes
\* to the catch of line 481
KExecTrajec(n, ok) ==
  /\ KinovaRuns /\ kin.lpc = "exec_send"
  /\ kin' = IF n = 0 THEN [kin EXCEPT !.lpc = "pop"]
            ELSE IF ~kin.arm THEN NullArm(kin)
            ELSE IF ~ok THEN [kin EXCEPT !.lpc = "pop"]
            ELSE [kin EXCEPT !.way = n, !.lpc = "exec_way"]
  /\ UNCHANGED kobs /\ UnchangedByKinova

\* lines 475-478: one way point goes to the arm, usleep() follows; a throw of
\* goto_joints() (~ok) ends the trajectory at the catch of line 481
KExecWay(ok) ==
  /\ KinovaRuns /\ kin.lpc = "exec_way"
  /\ IF ~kin.arm
     THEN kin' = NullArm(kin) /\ UNCHANGED kobs
     ELSE IF ~ok
     THEN kin' = [kin EXCEPT !.way = 0, !.lpc = "pop"] /\ UNCHANGED kobs
     ELSE /\ kin' = [kin EXCEPT !.way = @ - 1,
                                !.lpc = IF kin.way = 1 THEN "pop" ELSE "exec_way"]
          /\ kobs' = [kobs EXCEPT !.sent = Append(@, kin.target)]
  /\ UnchangedByKinova

\* std::list::pop_front() on a queue that is not empty
PopFront(q) == Tail(q)

\* lines 348-350 and 368-370: pop_front() under the mutex; on an empty list
\* its behaviour is undefined
KPop ==
  /\ KinovaRuns /\ kin.lpc = "pop"
  /\ IF ~kin.arm
     THEN kin' = NullArm(kin) /\ UNCHANGED kobs
     ELSE IF kin.queue = <<>>
     THEN /\ \E o \in {"crashed", "corrupted"} :
               kin' = [kin EXCEPT !.ub = o, !.lpc = "top"]
          /\ kobs' = [kobs EXCEPT !.popped = Append(@, [removed |-> 0,
                                                          processed |-> kin.target])]
     ELSE /\ kin' = [kin EXCEPT !.queue = PopFront(@), !.lpc = "top"]
          /\ kobs' = [kobs EXCEPT !.popped = Append(@, [removed |-> Head(kin.queue),
                                                          processed |-> kin.target])]
  /\ UnchangedByKinova

\* line 206: __arm->arm->stop(); when it throws, the catch of line 216 ends
\* stop(), and loop() goes on at line 356
StopArm(k, ok, own) ==
  IF ~k.arm THEN NullArm(k)
  ELSE IF own THEN [k EXCEPT !.lpc = IF ok THEN "stop_clear" ELSE "stop_error"]
              ELSE [k EXCEPT !.spc = IF ok THEN "stop_clear" ELSE "idle"]

\* lines 208-210
StopClear(k, own) ==
  IF ~k.arm THEN NullArm(k)
  ELSE IF own THEN [k EXCEPT !.queue = <<>>, !.lpc = "stop_final"]
              ELSE [k EXCEPT !.queue = <<>>, !.spc = "stop_final"]

\* lines 212-214
StopFinal(k, own) ==
  IF ~k.final_mutex THEN NullArm(k)
  ELSE IF own THEN [k EXCEPT !.final = TRUE, !.lpc = "stop_error"]
              ELSE [k EXCEPT !.final = TRUE, !.spc = "idle"]

Enqueued == 1..kobs.enqueued

\* stop() called by another thread
KStopCall(ok) ==
  /\ KinovaRuns
  /\ kin.spc = "idle" /\ kobs.stops < MaxStops
  /\ kin' = StopArm(kin, ok, FALSE)
  /\ kobs' = [kobs EXCEPT !.stops = @ + 1,
                          !.before = IF ok /\ kin.arm THEN Enqueued ELSE {}]
  /\ UnchangedByKinova

KStopClear ==
  /\ KinovaRuns /\ kin.spc = "stop_clear"
  /\ kin' = StopClear(kin, FALSE)
  /\ UNCHANGED kobs /\ UnchangedByKinova

KStopFinal ==
  /\ KinovaRuns /\ kin.spc = "stop_final"
  /\ kin' = StopFinal(kin, FALSE)
  /\ kobs' = IF kin.final_mutex THEN [kobs EXCEPT !.stopped = @ \cup kobs.before]
             ELSE kobs
  /\ UnchangedByKinova

\* stop() called by loop() for a trajectory that could not be planned, line 355
KLoopStop(ok) ==
  /\ KinovaRuns /\ kin.lpc \in {"stop_arm", "stop_clear", "stop_final"}
  /\ kin' = IF kin.lpc = "stop_arm" THEN StopArm(kin, ok, TRUE)
            ELSE IF kin.lpc = "stop_clear" THEN StopClear(kin, TRUE)
            ELSE StopFinal(kin, TRUE)
  /\ UNCHANGED kobs /\ UnchangedByKinova

\* line 356, after the stop() of line 355 has returned:
\* __arm->iface->set_error_code(ERROR_PLANNING)
KLoopError ==
  /\ KinovaRuns /\ kin.lpc = "stop_error"
  /\ kin' = IF ~kin.arm THEN NullArm(kin) ELSE [kin EXCEPT !.lpc = "top"]
  /\ UNCHANGED kobs /\ UnchangedByKinova

\* final(), lines 79-83: is the queue empty?  If not, final() returns false
KFinalBegin ==
  /\ KinovaRuns /\ kin.fpc = "idle"
  /\ kin' = IF ~kin.arm THEN NullArm(kin)
            ELSE IF kin.queue # <<>> THEN kin
            ELSE [kin EXCEPT !.fpc = "read"]
  /\ UNCHANGED kobs /\ UnchangedByKinova

\* final(), lines 86-90: __final read under __final_mutex; true is returned
KFinalRead ==
  /\ KinovaRuns /\ kin.fpc = "read"
  /\ kin' = IF ~kin.final_mutex THEN NullArm(kin)
            ELSE [kin EXCEPT !.fpc = IF kin.final THEN "idle" ELSE "check"]
  /\ UNCHANGED kobs /\ UnchangedByKinova

\* what the comparison of check_final() can come to for a target of type ty:
\* the arm is at the target, it is not, or pos.at() throws std::out_of_range
\* because pos is empty (a gripper target that was never converted, line 415;
\* a trajectory target carries the pos its planner gave it)
CheckOutcomes(ty) ==
  IF ty = "GRIPPER" THEN {"throws"}
  ELSE IF ty = "TRAJEC" THEN {"arrived", "moving", "throws"}
  ELSE {"arrived", "moving"}

\* check_final(), lines 228-255 and 262-270: __target is read as loop() left
\* it, without a lock, and compared with the arm's position into the local
\* final.  A null __target is dereferenced (line 228).  With pos empty and
\* __arm null the operands pos.at(i) and __arm->iface->... are evaluated in
\* an order the language leaves open: the exception leaves final(), or the
\* process dies.  A READY or RETRACT target goes on to line 234.
KFinalCheck(o) ==
  /\ KinovaRuns /\ kin.fpc = "check"
  /\ IF kin.target = 0
     THEN kin' = NullArm(kin)
     ELSE IF kin.type[kin.target] \in {"READY", "RETRACT"}
     THEN kin' = [kin EXCEPT !.fpc = "mode"]
     ELSE /\ o \in CheckOutcomes(kin.type[kin.target])
          /\ \/ o = "throws" /\ kin' = [kin EXCEPT !.fpc = "idle"]
             \/ ~kin.arm /\ kin' = NullArm(kin)
             \/ /\ kin.arm /\ o # "throws"
                /\ kin' = [kin EXCEPT !.cf_final = (o = "arrived"), !.fpc = "store"]
  /\ UNCHANGED kobs /\ UnchangedByKinova

\* check_final(), lines 234-236: __final = __arm->arm->final() under
\* __final_mutex
KFinalMode(done) ==
  /\ KinovaRuns /\ kin.fpc = "mode"
  /\ kin' = IF ~kin.final_mutex \/ ~kin.arm THEN NullArm(kin)
            ELSE [kin EXCEPT !.final = done, !.fpc = "reread"]
  /\ UNCHANGED kobs /\ UnchangedByKinova

\* check_final(), lines 256-258 and 271-273: __final = final under
\* __final_mutex
KFinalStore ==
  /\ KinovaRuns /\ kin.fpc = "store"
  /\ kin' = IF ~kin.final_mutex THEN NullArm(kin)
            ELSE [kin EXCEPT !.final = kin.cf_final, !.fpc = "fingers"]
  /\ UNCHANGED kobs /\ UnchangedByKinova

\* check_final(), lines 283-296: __final read again without a lock; the
\* counter of unchanged finger readings goes up (same) or back to 0
KFinalFingers(same) ==
  /\ KinovaRuns /\ kin.fpc = "fingers"
  /\ kin' = IF ~kin.final THEN [kin EXCEPT !.fpc = "reread"]
            ELSE IF ~kin.arm THEN NullArm(kin)
            ELSE [kin EXCEPT !.still = IF ~same THEN 0
                                       ELSE IF @ > FingerStill THEN @ ELSE @ + 1,
                             !.fpc = "and"]
  /\ UNCHANGED kobs /\ UnchangedByKinova

\* check_final(), lines 297-299: __final &= __finger_last[3] > 10
KFinalAnd ==
  /\ KinovaRuns /\ kin.fpc = "and"
  /\ kin' = IF ~kin.final_mutex THEN NullArm(kin)
            ELSE [kin EXCEPT !.final = @ /\ kin.still > FingerStill, !.fpc = "reread"]
  /\ UNCHANGED kobs /\ UnchangedByKinova

\* final(), lines 94-98: __final read under __final_mutex and returned
KFinalReread ==
  /\ KinovaRuns /\ kin.fpc = "reread"
  /\ kin' = IF ~kin.final_mutex THEN NullArm(kin)
            ELSE [kin EXCEPT !.fpc = "idle"]
  /\ UNCHANGED kobs /\ UnchangedByKinova

InitKinova ==
  /\ BarrierAtRest /\ ThreadAtRest /\ ObserversAtRest /\ ExtrasAtRest

\* final() of another thread, step by step
KFinal ==
  \/ KFinalBegin
  \/ KFinalRead
  \/ \E o \in {"arrived", "moving", "throws"} : KFinalCheck(o)
  \/ \E done \in BOOLEAN : KFinalMode(done)
  \/ KFinalStore
  \/ \E same \in BOOLEAN : KFinalFingers(same)
  \/ KFinalAnd
  \/ KFinalReread

NextKinova ==
  \/ KRegisterArm
  \/ KUnregisterArm
  \/ KInit
  \/ KFinalize
  \/ \E ty \in SetterTypes : KSetTarget(ty)
  \/ \E st \in TrajecStates : KAddTrajec(st)
  \/ KLoopTest
  \/ KLoopFetch
  \/ KGoto
  \/ \E o \in SendOutcomes : KSend(o)
  \/ KExecMark
  \/ \E n \in 0..MaxWay, ok \in BOOLEAN : KExecTrajec(n, ok)
  \/ \E ok \in BOOLEAN : KExecWay(ok)
  \/ KPop
  \/ \E ok \in BOOLEAN : KStopCall(ok)
  \/ KStopClear
  \/ KStopFinal
  \/ \E ok \in BOOLEAN : KLoopStop(ok)
  \/ KLoopError
  \/ KFinal

KinovaSpec == InitKinova /\ [][NextKinova]_vars

\* the runs in which the targets come from the setters of this class only
NextGoto ==
  \/ KRegisterArm
  \/ KUnregisterArm
  \/ KInit
  \/ KFinalize
  \/ \E ty \in SetterTypes : KSetTarget(ty)
  \/ KLoopTest
  \/ KLoopFetch
  \/ KGoto
  \/ \E o \in SendOutcomes : KSend(o)
  \/ KPop
  \/ \E ok \in BOOLEAN : KStopCall(ok)
  \/ KStopClear
  \/ KStopFinal
  \/ KFinal

GotoSpec == InitKinova /\ [][NextGoto]_vars

\* ----- C26 -----------------------------------------------------------------
\* C26: when stop() returns, no target enqueued before the call is left in
\* the queue and __final is true; and no command is sent to the arm for a
\* target that was enqueued before a stop() that has returned.
C26_StopStopsAll ==
  [][ /\ kobs'.stopped # kobs.stopped =>
          /\ kin'.final
          /\ \A i \in DOMAIN kin'.queue : kin'.queue[i] \notin kobs'.stopped
      /\ kobs'.sent # kobs.sent =>
          kobs'.sent[Len(kobs'.sent)] \notin kobs.stopped ]_vars

\* ----- C27 -----------------------------------------------------------------
\* C27: every pop_front() of loop() removes the target the iteration has just
\* processed; it is never applied to an empty queue.
C27_PopsProcessed ==
  \A i \in DOMAIN kobs.popped :
    kobs.popped[i].removed # 0 /\ kobs.popped[i].removed = kobs.popped[i].processed

\* ----- NavGraphThread (plugins/navgraph/navgraph_thread.cpp) -------------------
\* loop() runs in the thread itself, one wakeup after the other; other
\* threads enqueue messages at any time.  What the environment answers -- the
\* pose lookups, the path search, the enqueue on the navigator interface, the
\* distance to the node -- is drawn per step as the record e.

MsgKinds == {"StopMessage", "CartesianGotoMessage", "PlaceGotoMessage"}

Answers ==
  [tfPose : BOOLEAN,      \* transform_pose of lines 206 and 394 succeeds
   tfFace : BOOLEAN,      \* transform_pose of line 325 succeeds
   tfGoal : BOOLEAN,      \* transform_pose of line 345 succeeds
   send   : BOOLEAN,      \* nav_if_->msgq_enqueue of line 361 succeeds
   search : BOOLEAN,      \* lines 224-227 end without an exception
   len    : 0..MaxPlan,   \* size of the A* solution, 0: no path
   reached : BOOLEAN,     \* dist <= cfg_tolerance_, line 404
   resend : BOOLEAN,      \* the resend interval has passed, line 171
   event  : BOOLEAN,      \* process_events() reports a change of the graph file
   reload : BOOLEAN,      \* load_yaml_navgraph of line 415 succeeds
   undef  : {"crash", "throw", "node", "free-target"}]
                          \* what back() on an empty vector leads to: the process
                          \* dies, the copy throws, or stale storage is read as a
                          \* goal of that name

\* an answer is drawn only where it is asked for: after a failed pose lookup
\* of lines 206 or 394 nothing follows, after a failed search no goal is sent,
\* after a failed lookup of line 345 nothing is enqueued
Asked(e) ==
  /\ ~e.tfPose => (/\ e.search /\ e.len = 0 /\ e.tfFace /\ e.tfGoal /\ e.send
                   /\ ~e.reached /\ ~e.resend)
  /\ ~e.search => (e.len = 0 /\ e.tfFace /\ e.tfGoal /\ e.send)
  /\ ~e.tfGoal => e.send

\* the answers a turn of the message loop asks for
MsgAnswers ==
  {e \in Answers : Asked(e) /\ ~e.reached /\ ~e.resend /\ ~e.event /\ ~e.reload
                   /\ e.undef = "throw"}

\* the answers process_events() and fam_event() ask for; without an event
\* nothing else is asked
FamAnswers ==
  {e \in Answers : /\ Asked(e) /\ ~e.reached /\ ~e.resend
                   /\ e.event \/ (/\ ~e.reload /\ e.tfPose /\ e.tfFace /\ e.tfGoal
                                  /\ e.send /\ e.search /\ e.len = 0)}

\* the answers lines 156-175 ask for
ExecAnswers ==
  {e \in Answers : Asked(e) /\ e.search /\ e.len = 0 /\ ~e.event /\ ~e.reload
                   /\ e.undef = "throw"}

UnchangedByNav ==
  UNCHANGED <<bvars, hvars, ctor, thread, thobs, observers, bbseen, lvars, kvars, used>>

Throw_(n) == [n EXCEPT !.thrown = TRUE]
ThrowEmpty(n) == [n EXCEPT !.thrown = TRUE, !.empty_use = TRUE]

\* stop_motion() that leaves exec_active_ as it is
StopMotion_KeepsActive(n) ==
  [n EXCEPT !.last_node_ = "", !.final = TRUE]

\* stop_motion(), lines 286-304; a failing enqueue of the stop is logged
StopMotion(n) ==
  [n EXCEPT !.last_node_ = "", !.exec_active_ = FALSE, !.final = TRUE]

\* line 317: only the free target carries an orientation
HasOrientation(node) == node = "free-target"

\* send_next_goal(), lines 307-378
SendNextGoal(n, e) ==
  IF n.plan_ = <<>> THEN ThrowEmpty(n)
  ELSE IF ~(Len(n.plan_) = 1 /\ HasOrientation(Head(n.plan_))) /\ ~e.tfFace
    THEN Throw_(n)
  ELSE IF ~e.tfGoal THEN Throw_(n)
  ELSE IF e.send THEN n
  ELSE [n EXCEPT !.exec_active_ = FALSE, !.final = TRUE,
                 !.error_code = "ERROR_OBSTRUCTION"]

\* generate_plan(goal_name), lines 199-239: the pose lookup fails before
\* plan_ is touched (line 210); the search state and the search of lines
\* 224-227 come after plan_.clear() of line 222, and an exception there
\* leaves the plan empty
GeneratePlan(n, e) ==
  IF ~e.tfPose THEN Throw_(n)
  ELSE IF ~e.search THEN Throw_([n EXCEPT !.plan_ = <<>>])
  ELSE [n EXCEPT !.plan_ = [i \in 1..e.len |-> "node"]]

\* generate_plan(x, y, ori), lines 241-250
GeneratePlanXY(n, e) ==
  LET g == GeneratePlan(n, e) IN
  IF g.thrown THEN g ELSE [g EXCEPT !.plan_ = Append(@, "free-target")]

\* start_plan() without the test of line 256
StartPlan_NoEmptyTest(n, e) ==
  SendNextGoal([n EXCEPT !.exec_active_ = TRUE, !.error_code = "ERROR_NONE",
                         !.final = FALSE], e)

\* start_plan(), lines 253-283
StartPlan(n, e) ==
  IF n.plan_ = <<>>
    THEN [n EXCEPT !.exec_active_ = FALSE, !.final = TRUE,
                   !.error_code = "ERROR_UNKNOWN_PLACE"]
    ELSE SendNextGoal([n EXCEPT !.exec_active_ = TRUE, !.error_code = "ERROR_NONE",
                                !.final = FALSE], e)

\* lines 126-147: the message at the head of the queue
HandleMessage(n, m, e) ==
  IF m.kind = "StopMessage"
    THEN [StopMotion(n) EXCEPT !.exec_active_ = FALSE]
  ELSE LET n1 == [n EXCEPT !.msgid = m.id]
           g  == IF m.kind = "CartesianGotoMessage" THEN GeneratePlanXY(n1, e)
                                                   ELSE GeneratePlan(n1, e)
       IN  IF g.thrown THEN g ELSE StartPlan(g, e)

\* line 431: plan_.back() on an empty vector is undefined; the process dies
\* on the garbage it reads, or the copy of it throws, or the storage behind
\* the vector is read as a node and lines 433-439 go on with it as the goal
BackOfEmpty(n, e) ==
  IF e.undef = "crash" THEN [n EXCEPT !.crashed = TRUE, !.empty_use = TRUE]
  ELSE IF e.undef = "throw" THEN ThrowEmpty(n)
  ELSE LET s == [n EXCEPT !.empty_use = TRUE]
           g == IF e.undef = "free-target" THEN GeneratePlanXY(s, e)
                                           ELSE GeneratePlan(s, e)
       IN  IF g.thrown THEN g ELSE StartPlan(g, e)

\* fam_event(), lines 408-441
FamEvent(n, e) ==
  IF ~e.reload THEN n
  ELSE IF ~n.exec_active_ THEN n
  ELSE IF n.plan_ = <<>> THEN BackOfEmpty(StopMotion(n), e)
  ELSE LET s == StopMotion(n)
           g == IF n.plan_[Len(n.plan_)] = "free-target" THEN GeneratePlanXY(s, e)
                                                         ELSE GeneratePlan(s, e)
       IN  IF g.thrown THEN g ELSE StartPlan(g, e)

\* lines 156-175
ExecStep(n, e) ==
  IF ~n.exec_active_ THEN n
  ELSE IF n.plan_ = <<>> THEN ThrowEmpty(n)                    \* node_reached()
  ELSE IF ~e.tfPose THEN Throw_(n)
  ELSE IF e.reached
    THEN LET n1 == [n EXCEPT !.last_node_ = Head(n.plan_), !.plan_ = Tail(@)] IN
         IF n1.plan_ = <<>>
           THEN [StopMotion(n1) EXCEPT !.final = TRUE, !.needs_write = TRUE]
           ELSE SendNextGoal(n1, e)
    ELSE IF e.resend THEN SendNextGoal(n, e) ELSE n

\* an exception leaves loop(); the thread is at rest until its next wakeup
Leave(n) == IF n.thrown THEN [n EXCEPT !.lpc = "idle"] ELSE n

\* another thread sends a message to the Pathplan interface
NEnqueue(k) ==
  /\ ~nav.crashed /\ nobs.sent < MaxMsgs
  /\ nav' = [nav EXCEPT !.msgq = Append(@, [id |-> nobs.sent + 1, kind |-> k])]
  /\ nobs' = [nobs EXCEPT !.sent = @ + 1]
  /\ UnchangedByNav

\* the thread is woken and enters loop(), line 122
NWakeup ==
  /\ ~nav.crashed /\ nav.lpc = "idle"
  /\ nav' = [nav EXCEPT !.lpc = "msgs", !.thrown = FALSE, !.needs_write = FALSE]
  /\ UNCHANGED nobs /\ UnchangedByNav

\* lines 123-150: one turn of the while loop
NMessage(e) ==
  /\ ~nav.crashed /\ nav.lpc = "msgs"
  /\ IF nav.msgq = <<>>
     THEN /\ nav' = [nav EXCEPT !.lpc = "fam"]
          /\ UNCHANGED nobs
     ELSE LET m == Head(nav.msgq)
              r == HandleMessage([nav EXCEPT !.needs_write = TRUE], m, e)
          IN  /\ nav' = IF r.thrown THEN Leave(r)
                        ELSE [r EXCEPT !.msgq = Tail(@)]            \* line 149
              /\ nobs' = [nobs EXCEPT !.handled = @ \cup {m.id},
                                      !.twice = @ \/ m.id \in nobs.handled]
  /\ UnchangedByNav

\* lines 152-154; fam_ is set by init() only when monitoring is configured
\* (lines 87-92), so with cfg_monitor_file_ set by an init() that did not get
\* that far, fam_ is an uninitialised pointer: the process dies on it, or the
\* call finds no event
NFam(e) ==
  /\ ~nav.crashed /\ nav.lpc = "fam"
  /\ nav' = IF nav.cfg_monitor_file_ /\ ~nav.fam
              THEN IF e.undef = "crash" THEN [nav EXCEPT !.crashed = TRUE]
                   ELSE [nav EXCEPT !.lpc = "exec"]
            ELSE IF nav.cfg_monitor_file_ /\ e.event
              THEN Leave([FamEvent(nav, e) EXCEPT !.lpc = "exec"])
              ELSE [nav EXCEPT !.lpc = "exec"]
  /\ UNCHANGED nobs /\ UnchangedByNav

\* lines 156-180
NExec(e) ==
  /\ ~nav.crashed /\ nav.lpc = "exec"
  /\ nav' = [ExecStep(nav, e) EXCEPT !.lpc = "idle"]
  /\ UNCHANGED nobs /\ UnchangedByNav

\* what a call of init() comes to: it runs to its end, or a configuration
\* value is missing (lines 65-70), or opening an interface, loading the graph
\* or setting up the monitor throws (lines 77-91)
InitOutcomes == {"done", "throws_config", "throws_later"}

\* init(), lines 63-98, called again on the running thread: cfg_monitor_file_
\* is read anew (lines 72-75), the interfaces are opened again under their
\* names, exec_active_ and last_node_ are reset (lines 95-96); plan_ is not
\* touched
NInit(o, mon) ==
  /\ ~nav.crashed
  /\ nav' = IF o = "throws_config" THEN nav
            ELSE IF o = "throws_later" THEN [nav EXCEPT !.cfg_monitor_file_ = mon]
            ELSE [nav EXCEPT !.cfg_monitor_file_ = mon, !.fam = @ \/ mon,
                             !.exec_active_ = FALSE, !.last_node_ = ""]
  /\ UNCHANGED nobs /\ UnchangedByNav

InitNav ==
  /\ BarrierAtRest /\ ThreadAtRest /\ ObserversAtRest
  /\ LockAtRest /\ KinovaAtRest
  /\ \E mon \in BOOLEAN : nav = NavConstructed(mon)
  /\ nobs = NavUnobserved

NextNav ==
  \/ \E o \in InitOutcomes, mon \in BOOLEAN : NInit(o, mon)
  \/ \E k \in MsgKinds : NEnqueue(k)
  \/ NWakeup
  \/ \E e \in MsgAnswers : NMessage(e)
  \/ \E e \in FamAnswers : NFam(e)
  \/ \E e \in ExecAnswers : NExec(e)

NavSpec == InitNav /\ [][NextNav]_vars

C29_HandledOnce ==
  [][ /\ ~nobs'.twice
      /\ (nav.lpc = "msgs" /\ nav'.lpc # "msgs") => nav'.msgq = <<>> ]_vars

\* ----- C30 -----------------------------------------------------------------
\* C30: the final flag of the Pathplan interface is false whenever
\* exec_active_ is true.
C30_ActiveNotFinal == nav.exec_active_ => ~nav.final

\* the plan was finished once (final set) and a new goto is being executed
C30_Witness ==
  /\ nav.exec_active_ /\ ~nav.final /\ nobs.handled = {1, 2}
  /\ nav.msgid = 2 /\ nav.msgq = <<>> /\ nav.lpc = "idle"
====
